---- MODULE Spec2Model ----
(***************************************************************************)
(* Role-scoped visibility and the lead conversion workflow of the CRM:     *)
(* crm_entities/views.py (BaseCrmView, Lead views, LeadConvertView),       *)
(* crm_entities/models.py, crm_entities/forms.py, users/models.py,         *)
(* sales_territories/models.py, sales_pipeline/models.py (Deal.save).      *)
(*                                                                         *)
(* The relational store is the committed tables leads, accounts, contacts  *)
(* and deals.  A conversion request is a process that reads the lead,      *)
(* checks permission and status, and then runs the statements of its       *)
(* `with transaction.atomic()` block one at a time; the rows it writes     *)
(* stay in its transaction (req[r].tx) until the block exits.  Other       *)
(* requests see committed rows only (read committed).                      *)
(***************************************************************************)
EXTENDS Integers, FiniteSets, Sequences, TLC

\* ------------------------------------------------------------------ bounds
MaxReq == 2        \* conversion requests issued in one behaviour
MaxLeads == 1      \* lead rows ever created
MaxViews == 2      \* requests to the scoped views in one behaviour

\* ------------------------------------------------------------ value domains
None == "None"

ADMIN == "ADMIN"
MANAGER == "MANAGER"
SALES == "SALES"
\* role is a CharField: a stored value outside Roles.choices is possible
OTHER_ROLE == "GUEST"
Roles == {ADMIN, MANAGER, SALES}

\* StatusChoices.NEW (NEW is a reserved word)
NEW_ == "NEW"
CONTACTED == "CONTACTED"
QUALIFIED == "QUALIFIED"
LOST == "LOST"
CONVERTED == "CONVERTED"
StatusChoices == {NEW_, CONTACTED, QUALIFIED, LOST, CONVERTED}

Users == {"ana", "max", "sam", "tom"}
Territories == {"north", "south"}
LeadPks == 1..MaxLeads
ReqIds == 1..MaxReq

\* names the forms submit
CompanyNames == {"", "Acme"}
FullNames == {"Ann Lee"}

VARIABLES
    users,        \* CustomUser rows: username -> [role, territory,
                  \* is_superuser, user_permissions]
    territories,  \* Territory rows: name -> [manager]
    leads,        \* Lead rows: pk -> row, or NoRow
    accounts,     \* committed Account rows
    contacts,     \* committed Contact rows
    deals,        \* committed Deal rows
    quotes,       \* committed Quote rows
    activities,   \* committed Task, Call and Meeting rows, by model
    seq,          \* primary key sequences of the tables
    req,          \* the LeadConvertView.post and DealCreateView.post requests
    view          \* the last response of a list, detail, update, delete,
                  \* autocomplete or export view: the queryset it was built
                  \* from, the object asked for and the HTTP status

vars == <<users, territories, leads, accounts, contacts, deals, quotes, activities,
          seq, req, view>>
db == <<leads, accounts, contacts, deals>>

\* the absent row (filter(pk=...).first() returns None)
NoRow == [pk |-> 0, status |-> None, company_name |-> "", full_name |-> "",
          assigned_to |-> None, created_by |-> None, territory |-> None]

\* no Deal instance
NoDeal == [pk |-> 0, deal_id |-> 0, account |-> 0, primary_contact |-> 0,
           stage |-> "PROSPECTING", probability |-> 10, amount |-> 0,
           created_by |-> None, assigned_to |-> None]

EmptyTx == [accounts |-> {}, contacts |-> {}, deals |-> {}, lead_status |-> {}]
NoRedirect == [to |-> None, pk |-> 0]
IdleReq == [pc |-> "idle", user |-> None, pk |-> 0, lead |-> NoRow, raises |-> FALSE,
            tx |-> EmptyTx, account_pk |-> 0, contact_pk |-> 0, deal_pk |-> 0,
            deal_num |-> 0, instance |-> NoDeal, msgs |-> <<>>, outcome |-> None, redirect |-> NoRedirect]

\* the Task, Call and Meeting tables, empty
NoActivities == [m \in {"Task", "Call", "Meeting"} |-> {}]
\* the GET parameters of a list view: the status filter, and the sort field
\* (written with `dashes` leading '-', last_name when absent) and direction
NoParams == [status |-> None, sort |-> [dashes |-> 0, field |-> "last_name"],
             dir |-> None]
\* the ordering of a queryset this model does not follow
NoOrder == [field |-> None, desc |-> FALSE]

\* no view has answered yet
NoView == [serial |-> 0, user |-> None, model |-> None, kind |-> None,
           raises |-> FALSE, params |-> NoParams, scoped |-> {}, result |-> {},
           order_by |-> NoOrder, pk |-> 0, method |-> "GET", status_code |-> 0]

\* ------------------------------------------------------------ users/models.py
\* a CustomUser row as create_user makes it: no superuser status and no model
\* permission
UserRow(role, territory) ==
    [role |-> role, territory |-> territory, is_superuser |-> FALSE,
     user_permissions |-> {}]

\* has_perm of the ModelBackend for an active user: a superuser has every
\* permission, another user those granted to them
has_perm(u, perm) == users[u].is_superuser \/ perm \in users[u].user_permissions

is_admin_role(u) == users[u].role = ADMIN
is_manager_role(u) == users[u].role = MANAGER
is_sales_role(u) == users[u].role = SALES

\* managed_territories with the empty territory (NULL) counted as managed
managed_territories_WithNone(u) ==
    {t \in Territories : territories[t].manager = u} \cup {None}

\* user.managed_territories.all()
managed_territories(u) == {t \in Territories : territories[t].manager = u}

\* team_members without the role=SALES filter
team_members_NoRoleFilter(u) ==
    {m \in Users : users[m].territory \in managed_territories(u) /\ m # u}

\* CustomUser.objects.filter(territory__in=managed_territories,
\*                           role=SALES).exclude(pk=user.pk)
team_members(u) ==
    {m \in Users : /\ users[m].territory \in managed_territories(u)
                   /\ users[m].role = SALES
                   /\ m # u}

\* -------------------------------------------- BaseCrmView._filter_queryset_by_role
\* Q(assigned_to=user) alone
OwnQ_AssignedOnly(u, row) == row.assigned_to = u

\* Q(assigned_to=user) | Q(created_by=user)
OwnQ(u, row) == row.assigned_to = u \/ row.created_by = u

\* the manager branch for a model with a direct territory field;
\* raises: the territory or team lookup raised
ManagerQ(u, row, raises) ==
    IF raises
    THEN OwnQ(u, row)
    ELSE \/ OwnQ(u, row)
         \/ row.assigned_to \in team_members(u)
         \/ row.created_by \in team_members(u)
         \/ row.territory \in managed_territories(u)

\* queryset: a set of rows carrying assigned_to, created_by and territory
_filter_queryset_by_role(u, queryset, raises) ==
    IF is_admin_role(u) THEN queryset
    ELSE IF is_manager_role(u) THEN {row \in queryset : ManagerQ(u, row, raises)}
    ELSE IF is_sales_role(u) THEN {row \in queryset : OwnQ(u, row)}
    ELSE {}

\* Lead.objects.all()
LeadQueryset == {leads[l] : l \in {k \in DOMAIN leads : leads[k] # NoRow}}

\* LeadDetailView/LeadUpdateView.get_queryset
LeadScope(u, raises) == _filter_queryset_by_role(u, LeadQueryset, raises)

\* ------------------------------------------------- LeadConvertView.post, the checks
\* has_permission with the manager's territory clause left out
has_permission_NoTerritory(u, lead, raises) ==
    IF is_admin_role(u) THEN TRUE
    ELSE IF is_manager_role(u)
    THEN IF raises
         THEN lead.assigned_to = u \/ lead.created_by = u
         ELSE \/ lead.assigned_to = u
              \/ lead.created_by = u
              \/ lead.assigned_to \in team_members(u)
              \/ lead.created_by \in team_members(u)
    ELSE IF is_sales_role(u)
    THEN lead.assigned_to = u \/ lead.created_by = u
    ELSE FALSE

\* the permission check on the lead object read by the request
has_permission(u, lead, raises) ==
    IF is_admin_role(u) THEN TRUE
    ELSE IF is_manager_role(u)
    THEN IF raises
         THEN lead.assigned_to = u \/ lead.created_by = u
         ELSE \/ lead.assigned_to = u
              \/ lead.created_by = u
              \/ lead.assigned_to \in team_members(u)
              \/ lead.created_by \in team_members(u)
              \/ (lead.territory # None /\ lead.territory \in managed_territories(u))
    ELSE IF is_sales_role(u)
    THEN lead.assigned_to = u \/ lead.created_by = u
    ELSE FALSE

\* PreCheck with the status checks made before the permission check
PreCheck_StatusFirst(u, lead, raises) ==
    IF lead = NoRow THEN "not_found"
    ELSE IF lead.status = CONVERTED THEN "already_converted"
    ELSE IF lead.status = LOST THEN "lost"
    ELSE IF lead.status # QUALIFIED THEN "not_qualified"
    ELSE IF ~has_permission(u, lead, raises) THEN "forbidden"
    ELSE "convert"

\* PreCheck without the check for an already converted lead
PreCheck_NoConvertedCheck(u, lead, raises) ==
    IF lead = NoRow THEN "not_found"
    ELSE IF ~has_permission(u, lead, raises) THEN "forbidden"
    ELSE IF lead.status = LOST THEN "lost"
    ELSE IF lead.status # QUALIFIED THEN "not_qualified"
    ELSE "convert"

\* PreCheck without the check that the lead is QUALIFIED
PreCheck_NoQualifiedCheck(u, lead, raises) ==
    IF lead = NoRow THEN "not_found"
    ELSE IF ~has_permission(u, lead, raises) THEN "forbidden"
    ELSE IF lead.status = CONVERTED THEN "already_converted"
    ELSE IF lead.status = LOST THEN "lost"
    ELSE "convert"

\* the outcome of the checks made before the transaction, in the order of the
\* code; "convert" when all of them pass
PreCheck(u, lead, raises) ==
    IF lead = NoRow THEN "not_found"
    ELSE IF ~has_permission(u, lead, raises) THEN "forbidden"
    ELSE IF lead.status = CONVERTED THEN "already_converted"
    ELSE IF lead.status = LOST THEN "lost"
    ELSE IF lead.status # QUALIFIED THEN "not_qualified"
    ELSE "convert"

\* redirect('crm_entities:lead-list') / redirect('crm_entities:lead-detail', pk)
PreCheckRedirect(outcome, pk) ==
    IF outcome = "not_found" THEN [to |-> "lead-list", pk |-> 0]
    ELSE [to |-> "lead-detail", pk |-> pk]

\* lead.company_name or f"{lead.full_name}'s Company (from Lead)"
account_name(lead) ==
    IF lead.company_name # "" THEN lead.company_name
    ELSE lead.full_name \o "'s Company (from Lead)"

\* the name check left out
AccountNameExists_Off(name) == FALSE

\* Account.objects.filter(name=account_name).exists(), on the committed rows
AccountNameExists(name) == \E a \in accounts : a.name = name

\* Account.name without unique=True
AccountNameUnique_Off(name) == FALSE

\* Account.name is unique=True: the INSERT raises IntegrityError
AccountNameUnique(name) == \E a \in accounts : a.name = name

\* ------------------------------------------------------- sales_pipeline/models.py
QUALIFICATION == "QUALIFICATION"
STAGE_PROBABILITY_MAP(stage) ==
    CASE stage = "PROSPECTING" -> 10
      [] stage = QUALIFICATION -> 25
      [] stage = "PROPOSAL" -> 60
      [] stage = "NEGOTIATION" -> 80
      [] stage = "CLOSED_WON" -> 100
      [] stage = "CLOSED_LOST" -> 0
      [] OTHER -> 0

SetMax(S) == CHOOSE m \in S : \A n \in S : n <= m

\* Deal.save: 1 + the greatest number stored under the year's prefix, 1 when
\* there is none; visible: the deal rows the statement can read
new_num(visible) ==
    IF visible = {} THEN 1 ELSE SetMax({d.deal_id : d \in visible}) + 1

\* ------------------------------------------------------------- the transaction
\* the statements run without transaction.atomic(): every row written stays
TxRollback_None(t) == t

\* what is left of the rows a transaction wrote when its atomic block exits
\* with an exception: transaction.atomic() rolls all of them back
TxRollback(t) == EmptyTx

\* the rows of transaction t as the committed tables receive them
Flush(t) ==
    /\ accounts' = accounts \cup t.accounts
    /\ contacts' = contacts \cup t.contacts
    /\ deals' = deals \cup t.deals
    /\ leads' = [l \in LeadPks |->
                   IF l \in t.lead_status /\ leads[l] # NoRow
                   THEN [leads[l] EXCEPT !.status = CONVERTED]
                   ELSE leads[l]]

\* rows other open transactions have written and not yet committed
OthersTx(r) == {req[o].tx : o \in ReqIds \ {r}}

InTx(r) == req[r].pc \in {"atomic", "create_account", "create_contact",
                          "create_deal", "insert_deal", "save_lead", "commit"}

\* the message post adds last: messages.success for a conversion,
\* messages.error("Error converting lead: ...") for every exception caught by
\* the except clause, the message of the failed check otherwise
Message(outcome) ==
    IF outcome = "success" THEN "converted"
    ELSE IF outcome \in {"collision", "integrity_error", "error"} THEN "error_converting"
    ELSE outcome

\* the response of a request: the locals of post are gone, the messages and
\* the redirect are what the user gets; the messages added to the request
\* inside the atomic block stay in it
Response(r, outcome, redirect) ==
    [IdleReq EXCEPT !.pc = "done", !.user = req[r].user, !.pk = req[r].pk,
                    !.raises = req[r].raises,
                    !.msgs = Append(req[r].msgs, Message(outcome)),
                    !.outcome = outcome, !.redirect = redirect]

\* the except branch of post: roll back, report, redirect to the lead
Abort(r, outcome) ==
    /\ Flush(TxRollback(req[r].tx))
    /\ req' = [req EXCEPT ![r] = Response(r, outcome, [to |-> "lead-detail",
                                                       pk |-> req[r].lead.pk])]

\* -------------------------------------------------------- LeadConvertView.post
\* lines 469-521: read the lead, check permission and status
ConvertBegin(r, u, pk, raises) ==
    /\ req[r].pc = "idle"
    \* requests are numbered in the order they arrive
    /\ IF r = 1 THEN TRUE ELSE req[r - 1].pc # "idle"
    /\ LET lead == leads[pk]
           outcome == PreCheck(u, lead, raises)
       IN req' = [req EXCEPT ![r] =
                    IF outcome = "convert"
                    THEN [IdleReq EXCEPT !.pc = "atomic", !.user = u, !.pk = pk,
                                         !.lead = lead, !.raises = raises]
                    ELSE [IdleReq EXCEPT !.pc = "done", !.user = u, !.pk = pk,
                                         !.raises = raises,
                                         !.msgs = <<Message(outcome)>>,
                                         !.outcome = outcome,
                                         !.redirect = PreCheckRedirect(outcome, pk)]]
    /\ UNCHANGED <<view, quotes, activities, users, territories, leads, accounts, contacts, deals, seq>>

\* lines 527-534: the account name check, first statement of the atomic block
ConvertCheckName(r) ==
    /\ req[r].pc = "atomic"
    /\ IF AccountNameExists(account_name(req[r].lead))
       THEN Abort(r, "collision")
       ELSE /\ req' = [req EXCEPT ![r].pc = "create_account"]
            /\ UNCHANGED <<leads, accounts, contacts, deals>>
    /\ UNCHANGED <<view, quotes, activities, users, territories, seq>>

\* lines 535-542: Account.objects.create
ConvertCreateAccount(r) ==
    /\ req[r].pc = "create_account"
    /\ LET lead == req[r].lead
           u == req[r].user
           name == account_name(lead)
           row == [pk |-> seq.account + 1, name |-> name, created_by |-> u,
                   assigned_to |-> IF lead.assigned_to # None THEN lead.assigned_to ELSE u,
                   territory |-> lead.territory]
       IN \* the INSERT waits for an open transaction holding the same name
          /\ \A t \in OthersTx(r) : \A a \in t.accounts : a.name # name
          /\ seq' = [seq EXCEPT !.account = @ + 1]
          /\ IF AccountNameUnique(name)
             THEN Abort(r, "integrity_error")
             ELSE /\ req' = [req EXCEPT ![r] = [@ EXCEPT !.pc = "create_contact",
                                                         !.tx.accounts = {row},
                                                         !.account_pk = row.pk,
                                                         !.msgs = Append(@, "account_created")]]
                  /\ UNCHANGED <<leads, accounts, contacts, deals>>
    /\ UNCHANGED <<view, quotes, activities, users, territories>>

\* lines 546-561: Contact.objects.create
ConvertCreateContact(r) ==
    /\ req[r].pc = "create_contact"
    /\ LET lead == req[r].lead
           u == req[r].user
           row == [pk |-> seq.contact + 1, account |-> req[r].account_pk,
                   created_by |-> u,
                   assigned_to |-> IF lead.assigned_to # None THEN lead.assigned_to ELSE u,
                   notes |-> "Converted from Lead: " \o lead.full_name]
       IN /\ seq' = [seq EXCEPT !.contact = @ + 1]
          /\ req' = [req EXCEPT ![r] = [@ EXCEPT !.pc = "create_deal",
                                                 !.tx.contacts = {row},
                                                 !.contact_pk = row.pk,
                                                 !.msgs = Append(@, "contact_created")]]
    /\ UNCHANGED <<view, quotes, activities, users, territories, leads, accounts, contacts, deals>>

\* lines 565-580: Deal.objects.create calls Deal.save, which reads the
\* greatest deal_id stored (models.py 121-137) before it INSERTs
ConvertDealId(r) ==
    /\ req[r].pc = "create_deal"
    /\ req' = [req EXCEPT ![r] = [@ EXCEPT !.pc = "insert_deal",
                                           !.deal_num = new_num(deals \cup req[r].tx.deals)]]
    /\ UNCHANGED <<view, quotes, activities, users, territories, leads, accounts,
                   contacts, deals, seq>>

\* super().save() of Deal.save (models.py 140): the INSERT of the deal row
ConvertCreateDeal(r) ==
    /\ req[r].pc = "insert_deal"
    /\ LET lead == req[r].lead
           u == req[r].user
           num == req[r].deal_num
           row == [pk |-> seq.deal + 1, deal_id |-> num,
                   account |-> req[r].account_pk,
                   primary_contact |-> req[r].contact_pk,
                   stage |-> QUALIFICATION,
                   probability |-> STAGE_PROBABILITY_MAP(QUALIFICATION),
                   amount |-> 0, created_by |-> u,
                   assigned_to |-> IF lead.assigned_to # None THEN lead.assigned_to ELSE u]
       IN \* deal_id is unique: wait for an open transaction holding the same id
          /\ \A t \in OthersTx(r) : \A d \in t.deals : d.deal_id # num
          /\ seq' = [seq EXCEPT !.deal = @ + 1]
          /\ IF \E d \in deals : d.deal_id = num
             THEN Abort(r, "integrity_error")
             ELSE /\ req' = [req EXCEPT ![r] = [@ EXCEPT !.pc = "save_lead",
                                                         !.tx.deals = {row},
                                                         !.deal_pk = row.pk,
                                                         !.msgs = Append(@, "deal_created")]]
                  /\ UNCHANGED <<leads, accounts, contacts, deals>>
    /\ UNCHANGED <<view, quotes, activities, users, territories>>

\* lines 584-585: lead.status = CONVERTED; lead.save(update_fields=[...])
ConvertSaveLead(r) ==
    /\ req[r].pc = "save_lead"
    \* the UPDATE waits for an open transaction that wrote the same row
    /\ \A t \in OthersTx(r) : req[r].pk \notin t.lead_status
    /\ IF leads[req[r].pk] = NoRow
       THEN Abort(r, "error")
       ELSE /\ req' = [req EXCEPT ![r] = [@ EXCEPT !.pc = "commit",
                                                   !.tx.lead_status = {req[r].pk}]]
            /\ UNCHANGED <<leads, accounts, contacts, deals>>
    /\ UNCHANGED <<view, quotes, activities, users, territories, seq>>

\* ConvertCommit answering with a redirect to the lead instead of the account
ConvertCommit_ToLead(r) ==
    /\ req[r].pc = "commit"
    /\ Flush(req[r].tx)
    /\ req' = [req EXCEPT ![r] = Response(r, "success", [to |-> "lead-detail",
                                                         pk |-> req[r].pk])]
    /\ UNCHANGED <<view, quotes, activities, users, territories, seq>>

\* the atomic block exits normally: commit; lines 587-591
ConvertCommit(r) ==
    /\ req[r].pc = "commit"
    /\ Flush(req[r].tx)
    /\ req' = [req EXCEPT ![r] = Response(r, "success", [to |-> "account-detail",
                                                         pk |-> req[r].account_pk])]
    /\ UNCHANGED <<view, quotes, activities, users, territories, seq>>

\* any statement of the atomic block raises (a database error): lines 593-598
ConvertFail(r) ==
    /\ InTx(r)
    /\ Abort(r, "error")
    /\ UNCHANGED <<view, quotes, activities, users, territories, seq>>

\* the requests of the users in U
Convert(U) ==
    \/ \E r \in ReqIds, u \in U, pk \in LeadPks :
          \E raises \in (IF users[u].role = MANAGER THEN BOOLEAN ELSE {FALSE}) :
             ConvertBegin(r, u, pk, raises)
    \/ \E r \in ReqIds : ConvertCheckName(r)
    \/ \E r \in ReqIds : ConvertCreateAccount(r)
    \/ \E r \in ReqIds : ConvertCreateContact(r)
    \/ \E r \in ReqIds : ConvertDealId(r)
    \/ \E r \in ReqIds : ConvertCreateDeal(r)
    \/ \E r \in ReqIds : ConvertSaveLead(r)
    \/ \E r \in ReqIds : ConvertCommit(r)
    \/ \E r \in ReqIds : ConvertFail(r)

\* ------------------------------------------------------------ the other views
\* LeadCreateView.form_valid with a valid LeadForm
LeadCreate(u, status, company, full_name, assignee, territory) ==
    /\ seq.lead < MaxLeads
    /\ LET pk == seq.lead + 1
       IN leads' = [leads EXCEPT ![pk] =
                      [pk |-> pk, status |-> status, company_name |-> company,
                       full_name |-> full_name,
                       assigned_to |-> IF assignee = None THEN u ELSE assignee,
                       created_by |-> u, territory |-> territory]]
    /\ seq' = [seq EXCEPT !.lead = @ + 1]
    /\ UNCHANGED <<view, quotes, activities, users, territories, accounts, contacts, deals, req>>

\* LeadUpdateView.post with a valid LeadForm: the object comes from the scoped
\* queryset (404 otherwise), every form field is written
LeadUpdate(u, pk, status, company, assignee, territory) ==
    /\ leads[pk] \in LeadScope(u, FALSE)
    \* the UPDATE waits for an open transaction that wrote the row
    /\ \A r \in ReqIds : pk \notin req[r].tx.lead_status
    /\ leads' = [leads EXCEPT ![pk] = [@ EXCEPT !.status = status,
                                                !.company_name = company,
                                                !.assigned_to = assignee,
                                                !.territory = territory]]
    /\ UNCHANGED <<view, quotes, activities, users, territories, accounts, contacts, deals, seq, req>>

\* AccountForm.is_valid: a ModelForm rejects a name that is taken (unique=True)
validate_unique(name) == \A a \in accounts : a.name # name

\* AccountCreateView.form_valid with a valid AccountForm; the INSERT waits for
\* an open transaction holding the name
AccountCreate(u, name, assignee, territory) ==
    /\ validate_unique(name)
    /\ \A r \in ReqIds : \A a \in req[r].tx.accounts : a.name # name
    /\ accounts' = accounts \cup
          {[pk |-> seq.account + 1, name |-> name, created_by |-> u,
            assigned_to |-> IF assignee = None THEN u ELSE assignee,
            territory |-> territory]}
    /\ seq' = [seq EXCEPT !.account = @ + 1]
    /\ UNCHANGED <<view, quotes, activities, users, territories, leads, contacts, deals, req>>

\* ------------------------------------------------------------- specifications
\* the users and territories of the deployment: an admin, a manager of north,
\* a sales associate in north and one in south; south has no manager
TeamUsers ==
    [u \in Users |->
        CASE u = "ana" -> UserRow(ADMIN, None)
          [] u = "max" -> UserRow(MANAGER, None)
          [] u = "sam" -> UserRow(SALES, "north")
          [] OTHER -> UserRow(SALES, "south")]
TeamTerritories ==
    [t \in Territories |-> [manager |-> IF t = "north" THEN "max" ELSE None]]

\* what the forms of this specification submit
FormUsers == {"sam"}
ConvertUsers == {"sam", "tom"}
FormAssignees == {None}
FormTerritories == {None}
AccountNames == {"Acme", "Ann Lee's Company (from Lead)"}

Init ==
    /\ users = TeamUsers
    /\ territories = TeamTerritories
    /\ leads = [l \in LeadPks |-> NoRow]
    /\ accounts = {}
    /\ contacts = {}
    /\ deals = {}
    /\ quotes = {}
    /\ activities = NoActivities
    /\ view = NoView
    /\ seq = [lead |-> 0, account |-> 0, contact |-> 0, deal |-> 0,
             quote |-> 0, Task |-> 0, Call |-> 0, Meeting |-> 0]
    /\ req = [r \in ReqIds |-> IdleReq]

Next ==
    \/ Convert(ConvertUsers)
    \/ \E u \in FormUsers, status \in StatusChoices, company \in CompanyNames,
          full_name \in FullNames, assignee \in FormAssignees,
          territory \in FormTerritories :
          LeadCreate(u, status, company, full_name, assignee, territory)
    \/ \E u \in FormUsers, pk \in LeadPks, status \in StatusChoices,
          company \in CompanyNames :
          LeadUpdate(u, pk, status, company, leads[pk].assigned_to, leads[pk].territory)
    \/ \E u \in FormUsers, name \in AccountNames :
          AccountCreate(u, name, None, None)

Spec == Init /\ [][Next]_vars

\* Two or more conversion requests racing, nothing else running: the leads
\* exist already, all owned by a sales associate.
RaceUsers == {"sam", "ana"}
RaceStatuses == {QUALIFIED, CONTACTED}
RaceLeads ==
    [LeadPks -> {[pk |-> 0, status |-> st, company_name |-> c, full_name |-> "Ann Lee",
                  assigned_to |-> "sam", created_by |-> "sam", territory |-> None] :
                 st \in RaceStatuses, c \in CompanyNames}]

InitRace ==
    /\ users = TeamUsers
    /\ territories = TeamTerritories
    /\ \E f \in RaceLeads : leads = [l \in LeadPks |-> [f[l] EXCEPT !.pk = l]]
    /\ accounts = {}
    /\ contacts = {}
    /\ deals = {}
    /\ quotes = {}
    /\ activities = NoActivities
    /\ view = NoView
    /\ seq = [lead |-> MaxLeads, account |-> 0, contact |-> 0, deal |-> 0,
             quote |-> 0, Task |-> 0, Call |-> 0, Meeting |-> 0]
    /\ req = [r \in ReqIds |-> IdleReq]

NextRace == Convert(RaceUsers)

SpecRace == InitRace /\ [][NextRace]_vars

\* The permission check over the roles, territories and owners a deployment
\* can hold: one lead, the users and territories drawn from PermUsers and
\* PermTerritories.
PermUsers ==
    {[u \in Users |->
        CASE u = "ana" -> UserRow(ADMIN, None)
          [] u = "max" -> UserRow(MANAGER, None)
          [] u = "sam" -> UserRow(rs, "north")
          [] OTHER -> UserRow(SALES, "south")] :
     rs \in {SALES, MANAGER, OTHER_ROLE}}
PermTerritories ==
    {[t \in Territories |-> [manager |-> IF t = "north" THEN mn ELSE None]] :
     mn \in {None, "max"}}
PermLeads ==
    {[pk |-> 1, status |-> QUALIFIED, company_name |-> "Acme", full_name |-> "Ann Lee",
      assigned_to |-> a, created_by |-> c, territory |-> t] :
     a \in {None, "max", "sam"}, c \in {None, "max", "sam"},
     t \in {None, "north", "south"}}

InitPerm ==
    /\ users \in PermUsers
    /\ territories \in PermTerritories
    /\ \E row \in PermLeads : leads = [l \in LeadPks |-> IF l = 1 THEN row ELSE NoRow]
    /\ accounts = {}
    /\ contacts = {}
    /\ deals = {}
    /\ quotes = {}
    /\ activities = NoActivities
    /\ view = NoView
    /\ seq = [lead |-> 1, account |-> 0, contact |-> 0, deal |-> 0,
             quote |-> 0, Task |-> 0, Call |-> 0, Meeting |-> 0]
    /\ req = [r \in ReqIds |-> IdleReq]

NextPerm == Convert(Users)

SpecPerm == InitPerm /\ [][NextPerm]_vars

\* ------------------------------------------------- role scoping of the views
\* the record types and the views that scope them
Models == {"Account", "Contact", "Lead", "Deal", "Quote", "Task", "Call", "Meeting"}
ObjectKinds == {"detail", "update", "delete"}
AutocompleteModels == {"Account", "Contact", "Lead", "Deal"}

\* hasattr(self.model, 'territory'): Account and Lead carry a territory field
hasattr_territory(model) == model \in {"Account", "Lead"}
\* hasattr(self.model, 'account'): Contact, Deal and Quote carry an account field
hasattr_account(model) == model \in {"Contact", "Deal", "Quote"}

\* account__territory of a row: the territory of the account it points at,
\* None (NULL) when it has no account
account_territory(row) ==
    IF \E a \in accounts : a.pk = row.account
    THEN (CHOOSE a \in accounts : a.pk = row.account).territory
    ELSE None

\* the Q of the manager branch that all three mixins share: own records and
\* records of the team members
TeamQ(u, row) ==
    \/ OwnQ(u, row)
    \/ row.assigned_to \in team_members(u)
    \/ row.created_by \in team_members(u)

\* BaseCrmView._filter_queryset_by_role for the model of the view
BaseCrmView_filter(model, u, queryset, raises) ==
    IF hasattr_territory(model) THEN _filter_queryset_by_role(u, queryset, raises)
    ELSE IF is_admin_role(u) THEN queryset
    ELSE IF is_manager_role(u)
    THEN IF raises
         THEN {row \in queryset : OwnQ(u, row)}
         ELSE {row \in queryset :
                 \/ TeamQ(u, row)
                 \/ (hasattr_account(model)
                     /\ account_territory(row) \in managed_territories(u))}
    ELSE IF is_sales_role(u) THEN {row \in queryset : OwnQ(u, row)}
    ELSE {}

\* BaseSalesPipelineView._filter_queryset_by_role whose except branch returns
\* the queryset unfiltered
BaseSalesPipelineView_filter_RaiseAll(model, u, queryset, raises) ==
    IF is_admin_role(u) THEN queryset
    ELSE IF is_manager_role(u)
    THEN IF raises
         THEN queryset
         ELSE {row \in queryset :
                 \/ TeamQ(u, row)
                 \/ (hasattr_account(model)
                     /\ account_territory(row) \in managed_territories(u))}
    ELSE IF is_sales_role(u) THEN {row \in queryset : OwnQ(u, row)}
    ELSE {}

\* BaseSalesPipelineView._filter_queryset_by_role
BaseSalesPipelineView_filter(model, u, queryset, raises) ==
    IF is_admin_role(u) THEN queryset
    ELSE IF is_manager_role(u)
    THEN IF raises
         THEN {row \in queryset : OwnQ(u, row)}
         ELSE {row \in queryset :
                 \/ TeamQ(u, row)
                 \/ (hasattr_account(model)
                     /\ account_territory(row) \in managed_territories(u))}
    ELSE IF is_sales_role(u) THEN {row \in queryset : OwnQ(u, row)}
    ELSE {}

\* BaseActivityView._filter_queryset_by_role with the admin branch left out
BaseActivityView_filter_NoAdmin(model, u, queryset, raises) ==
    IF is_manager_role(u)
    THEN IF raises
         THEN {row \in queryset : OwnQ(u, row)}
         ELSE {row \in queryset : TeamQ(u, row)}
    ELSE IF is_sales_role(u) \/ is_admin_role(u) THEN {row \in queryset : OwnQ(u, row)}
    ELSE {}

\* BaseActivityView._filter_queryset_by_role
BaseActivityView_filter(model, u, queryset, raises) ==
    IF is_admin_role(u) THEN queryset
    ELSE IF is_manager_role(u)
    THEN IF raises
         THEN {row \in queryset : OwnQ(u, row)}
         ELSE {row \in queryset : TeamQ(u, row)}
    ELSE IF is_sales_role(u) THEN {row \in queryset : OwnQ(u, row)}
    ELSE {}

\* the mixin of the views of a model
scope_filter(model, u, queryset, raises) ==
    IF model \in {"Account", "Contact", "Lead"}
    THEN BaseCrmView_filter(model, u, queryset, raises)
    ELSE IF model \in {"Deal", "Quote"}
    THEN BaseSalesPipelineView_filter(model, u, queryset, raises)
    ELSE BaseActivityView_filter(model, u, queryset, raises)

\* Model.objects.all()
objects_all(model) ==
    CASE model = "Account" -> accounts
      [] model = "Contact" -> contacts
      [] model = "Lead" -> LeadQueryset
      [] model = "Deal" -> deals
      [] model = "Quote" -> quotes
      [] OTHER -> activities[model]

\* the queryset of a view that leaves no lead out
base_queryset_All(model, kind) == objects_all(model)

\* the queryset a view scopes: all rows, but LeadListView leaves the CONVERTED
\* leads out first
base_queryset(model, kind) ==
    IF model = "Lead" /\ kind = "list"
    THEN {row \in LeadQueryset : row.status # CONVERTED}
    ELSE objects_all(model)

\* the FilterSet of a list view: a valid status parameter keeps the rows of
\* that status, an absent or invalid one keeps them all (LeadFilter.status)
filterset_qs(model, params, queryset) ==
    IF model = "Lead" /\ params.status \in StatusChoices
    THEN {row \in queryset : row.status = params.status}
    ELSE queryset

\* valid_sort_fields of LeadListView
valid_sort_fields ==
    {"last_name", "first_name", "company_name", "status", "source", "territory__name",
     "assigned_to__username", "updated_at"}

\* sort_by_final of LeadListView.get_queryset: the field with its leading
\* dashes stripped when it is a valid one, in the direction asked for;
\* last_name ascending otherwise
sort_by_final(params) ==
    LET sort_by_validated == params.sort.field
    IN IF sort_by_validated \notin valid_sort_fields
       THEN [field |-> "last_name", desc |-> FALSE]
       ELSE [field |-> sort_by_validated, desc |-> params.dir = "desc"]

\* team_members of the autocomplete views of Account and Lead: no role filter
team_members_any_role(u) ==
    {m \in Users : users[m].territory \in managed_territories(u) /\ m # u}

\* AccountAutocomplete / LeadAutocomplete.get_queryset without a search term
TerritoryAutocomplete(u, queryset, raises) ==
    IF is_admin_role(u) THEN queryset
    ELSE IF is_manager_role(u)
    THEN IF raises
         THEN {row \in queryset : OwnQ(u, row)}
         ELSE {row \in queryset :
                 \/ OwnQ(u, row)
                 \/ row.assigned_to \in team_members_any_role(u)
                 \/ row.created_by \in team_members_any_role(u)
                 \/ row.territory \in managed_territories(u)}
    ELSE IF is_sales_role(u) THEN {row \in queryset : OwnQ(u, row)}
    ELSE {}

\* DealAutocomplete.get_queryset without a search term
DealAutocomplete(u, raises) ==
    IF is_admin_role(u) THEN deals
    ELSE IF is_manager_role(u)
    THEN IF raises
         THEN {row \in deals : OwnQ(u, row)}
         ELSE {row \in deals :
                 \/ TeamQ(u, row)
                 \/ account_territory(row) \in managed_territories(u)}
    ELSE IF is_sales_role(u) THEN {row \in deals : OwnQ(u, row)}
    ELSE {}

\* ContactAutocomplete.get_queryset without a forwarded deal or search term:
\* both branches of the role test take Contact.objects.all()
ContactAutocomplete(u) ==
    IF is_admin_role(u) THEN contacts ELSE contacts

\* get_queryset of the autocomplete view of a model
autocomplete_queryset(model, u, raises) ==
    CASE model = "Account" -> TerritoryAutocomplete(u, accounts, raises)
      [] model = "Lead" ->
           TerritoryAutocomplete(u, {row \in LeadQueryset :
                                       row.status \notin {CONVERTED, LOST}}, raises)
      [] model = "Deal" -> DealAutocomplete(u, raises)
      [] OTHER -> ContactAutocomplete(u)

\* the leads has_permission of LeadConvertView.post lets the user convert
convertible(u, raises) == {row \in LeadQueryset : has_permission(u, row, raises)}

\* get_queryset answering from the previous response to the same request
get_queryset_Cached(model, kind, u, raises, params) ==
    IF /\ view.user = u /\ view.model = model /\ view.kind = kind
       /\ view.raises = raises /\ view.params = params
    THEN [scoped |-> view.scoped, result |-> view.result, order_by |-> view.order_by]
    ELSE LET scoped == IF kind = "autocomplete" THEN autocomplete_queryset(model, u, raises)
                       ELSE IF kind = "convert" THEN convertible(u, raises)
                       ELSE scope_filter(model, u, base_queryset(model, kind), raises)
         IN [scoped |-> scoped,
             result |-> IF kind = "list" THEN filterset_qs(model, params, scoped)
                        ELSE scoped,
             order_by |-> IF kind = "list" /\ model = "Lead" THEN sort_by_final(params)
                          ELSE NoOrder]

\* get_queryset of the view of the given kind for the model: the scoped
\* queryset, what the view hands on (a list view applies its FilterSet) and the
\* ordering of it (order_by keeps the rows)
get_queryset(model, kind, u, raises, params) ==
    LET scoped == IF kind = "autocomplete" THEN autocomplete_queryset(model, u, raises)
                  ELSE IF kind = "convert" THEN convertible(u, raises)
                  ELSE scope_filter(model, u, base_queryset(model, kind), raises)
    IN [scoped |-> scoped,
        result |-> IF kind = "list" THEN filterset_qs(model, params, scoped)
                   ELSE scoped,
        order_by |-> IF kind = "list" /\ model = "Lead" THEN sort_by_final(params)
                     ELSE NoOrder]

\* one request to a scoped view by user u; the responses are numbered
View(u, model, kind, raises, params) ==
    /\ view.serial < MaxViews
    /\ LET qs == get_queryset(model, kind, u, raises, params)
       IN view' = [serial |-> view.serial + 1, user |-> u, model |-> model,
                   kind |-> kind, raises |-> raises, params |-> params,
                   scoped |-> qs.scoped, result |-> qs.result,
                   order_by |-> qs.order_by, pk |-> 0, method |-> "GET",
                   status_code |-> 200]
    /\ UNCHANGED <<users, territories, leads, accounts, contacts, deals, quotes,
                   activities, seq, req>>

\* the export view of a model without the is_admin_role test
export_view_NoRoleCheck(model, u) ==
    [status_code |-> 200, queryset |-> objects_all(model)]

\* <model>_export_view without filter parameters: 403 unless the user has the
\* admin role, the rows of Model.objects.all() otherwise
export_view(model, u) ==
    IF ~is_admin_role(u)
    THEN [status_code |-> 403, queryset |-> {}]
    ELSE [status_code |-> 200, queryset |-> objects_all(model)]

\* one request to the export view of a model by user u
Export(u, model) ==
    /\ view.serial < MaxViews
    /\ LET response == export_view(model, u)
       IN view' = [NoView EXCEPT !.serial = view.serial + 1, !.user = u,
                                 !.model = model, !.kind = "export",
                                 !.scoped = response.queryset,
                                 !.result = response.queryset,
                                 !.status_code = response.status_code]
    /\ UNCHANGED <<users, territories, leads, accounts, contacts, deals, quotes,
                   activities, seq, req>>

\* the admin site: TerritoryAdmin saves a territory with another manager
SetTerritoryManager(t, m) ==
    /\ territories[t].manager # m
    /\ territories' = [territories EXCEPT ![t].manager = m]
    /\ UNCHANGED <<users, leads, accounts, contacts, deals, quotes, activities,
                   seq, req, view>>

\* the admin site: CustomUserAdmin saves a user with another territory
SetUserTerritory(u, t) ==
    /\ users[u].territory # t
    /\ users' = [users EXCEPT ![u].territory = t]
    /\ UNCHANGED <<territories, leads, accounts, contacts, deals, quotes, activities,
                   seq, req, view>>

\* the admin site: CustomUserAdmin saves a user with another role
SetUserRole(u, role) ==
    /\ users[u].role # role
    /\ users' = [users EXCEPT ![u].role = role]
    /\ UNCHANGED <<territories, leads, accounts, contacts, deals, quotes, activities,
                   seq, req, view>>

\* ------------------------------------------- the detail, update and delete views
\* the stored rows of every record type
Tables == [model \in Models |-> objects_all(model)]

PkOf(rows) == {row.pk : row \in rows}

\* the tables become T; the lead table keeps the keys of deleted leads
Store(T) ==
    /\ accounts' = T["Account"]
    /\ contacts' = T["Contact"]
    /\ leads' = [pk \in DOMAIN leads \cup PkOf(T["Lead"]) |->
                    IF \E row \in T["Lead"] : row.pk = pk
                    THEN CHOOSE row \in T["Lead"] : row.pk = pk
                    ELSE NoRow]
    /\ deals' = T["Deal"]
    /\ quotes' = T["Quote"]
    /\ activities' = [m \in {"Task", "Call", "Meeting"} |-> T[m]]

\* permission_required of the view: AccountDeleteView alone is a
\* PermissionRequiredMixin
permission_required(model, kind) ==
    IF model = "Account" /\ kind = "delete" THEN "crm_entities.delete_account"
    ELSE None

\* PermissionRequiredMixin.dispatch lets the request through
has_permission_mixin(u, model, kind) ==
    permission_required(model, kind) = None
       \/ has_perm(u, permission_required(model, kind))

\* get_queryset of the detail, update or delete view of a model
object_queryset(model, kind, u, raises) ==
    scope_filter(model, u, base_queryset(model, kind), raises)

\* the rows Django's Collector deletes with `row` and those it changes: the
\* CASCADE foreign keys Contact.account, Deal.account, Quote.account,
\* Quote.deal and related_to_* of the activities, and the SET_NULL key
\* Deal.primary_contact
Collector(T, model, row) ==
    LET gone_accounts == IF model = "Account" THEN {row} ELSE {}
        gone_contacts == (IF model = "Contact" THEN {row} ELSE {}) \cup
                         {c \in T["Contact"] : c.account \in PkOf(gone_accounts)}
        gone_leads == IF model = "Lead" THEN {row} ELSE {}
        gone_deals == (IF model = "Deal" THEN {row} ELSE {}) \cup
                      {d \in T["Deal"] : d.account \in PkOf(gone_accounts)}
        gone_quotes == (IF model = "Quote" THEN {row} ELSE {}) \cup
                       {q \in T["Quote"] : \/ q.account \in PkOf(gone_accounts)
                                           \/ q.deal \in PkOf(gone_deals)}
        gone_activities(m) ==
            (IF model = m THEN {row} ELSE {}) \cup
            {a \in T[m] : \/ a.related_to_account \in PkOf(gone_accounts)
                          \/ a.related_to_contact \in PkOf(gone_contacts)
                          \/ a.related_to_lead \in PkOf(gone_leads)
                          \/ a.related_to_deal \in PkOf(gone_deals)}
    IN [m \in Models |->
          CASE m = "Account" -> T[m] \ gone_accounts
            [] m = "Contact" -> T[m] \ gone_contacts
            [] m = "Lead" -> T[m] \ gone_leads
            [] m = "Deal" ->
                 {IF d.primary_contact \in PkOf(gone_contacts)
                  THEN [d EXCEPT !.primary_contact = 0] ELSE d :
                  d \in T[m] \ gone_deals}
            [] m = "Quote" -> T[m] \ gone_quotes
            [] OTHER -> T[m] \ gone_activities(m)]

\* Meta.fields of the ModelForm of a model, those of them the rows carry
form_fields(model) ==
    CASE model = "Account" -> {"name", "assigned_to", "territory"}
      [] model = "Contact" -> {"account", "notes", "assigned_to"}
      [] model = "Lead" -> {"full_name", "company_name", "status", "assigned_to",
                            "territory"}
      [] model = "Deal" -> {"account", "primary_contact", "stage", "amount", "assigned_to"}
      [] model = "Quote" -> {"deal", "assigned_to"}
      [] OTHER -> {"related_to_account", "related_to_contact", "related_to_lead",
                   "related_to_deal", "assigned_to"}

StageChoices == {"PROSPECTING", QUALIFICATION, "PROPOSAL", "NEGOTIATION",
                 "CLOSED_WON", "CLOSED_LOST"}

\* an optional ModelChoiceField: empty (0) or the key of a stored row
OptionalKey(pk, rows) == pk = 0 \/ pk \in PkOf(rows)

\* form.is_valid() for the instance with key pk (0 for a new one)
is_valid(model, form, pk) ==
    /\ form.assigned_to \in Users \cup {None}
    /\ CASE model = "Account" ->
              /\ form.name # ""
              /\ \A a \in accounts : a.name = form.name => a.pk = pk
              /\ form.territory \in Territories \cup {None}
         [] model = "Contact" -> OptionalKey(form.account, accounts)
         [] model = "Lead" ->
              /\ form.status \in StatusChoices
              /\ form.territory \in Territories \cup {None}
         [] model = "Deal" ->
              /\ form.account \in PkOf(accounts)
              /\ OptionalKey(form.primary_contact, contacts)
              /\ form.stage \in StageChoices
         [] model = "Quote" -> form.deal \in PkOf(deals)
         [] OTHER ->
              /\ OptionalKey(form.related_to_account, accounts)
              /\ OptionalKey(form.related_to_contact, contacts)
              /\ OptionalKey(form.related_to_lead, LeadQueryset)
              /\ OptionalKey(form.related_to_deal, deals)

\* construct_instance: the fields of the form are written into the instance
construct_instance(model, form, instance) ==
    [f \in DOMAIN instance |->
        IF f \in form_fields(model) THEN form[f] ELSE instance[f]]

\* Deal.save, line 117, keeping the probability the instance has
Deal_probability_Keep(stage, probability) == probability

\* Deal.save, line 117: self.probability = STAGE_PROBABILITY_MAP.get(stage, 0)
Deal_probability(stage, probability) == STAGE_PROBABILITY_MAP(stage)

\* QuoteCreateView/QuoteUpdateView.form_valid and Quote.save, lines 251-253:
\* the account of the quote is the account of its deal
Quote_account(quote) ==
    IF \E d \in deals : d.pk = quote.deal
    THEN (CHOOSE d \in deals : d.pk = quote.deal).account
    ELSE quote.account

\* Model.save of an instance that has its identifiers
model_save(model, instance) ==
    CASE model = "Deal" ->
           [instance EXCEPT !.probability = Deal_probability(instance.stage, @)]
      [] model = "Quote" -> [instance EXCEPT !.account = Quote_account(instance)]
      [] OTHER -> instance

\* the response of an object view
ObjectResponse(u, model, kind, method, raises, pk, queryset, status_code) ==
    [NoView EXCEPT !.serial = view.serial + 1, !.user = u, !.model = model,
                   !.kind = kind, !.method = method, !.raises = raises,
                   !.scoped = queryset,
                   !.result = {row \in queryset : row.pk = pk},
                   !.pk = pk, !.status_code = status_code]

\* GET of a detail, update or delete view: 403 from the permission mixin, 404
\* from get_object, the page otherwise
ObjectGet(u, model, kind, pk, raises) ==
    /\ view.serial < MaxViews
    /\ LET queryset == object_queryset(model, kind, u, raises)
           status_code == IF ~has_permission_mixin(u, model, kind) THEN 403
                          ELSE IF pk \notin PkOf(queryset) THEN 404
                          ELSE 200
       IN view' = ObjectResponse(u, model, kind, "GET", raises, pk, queryset, status_code)
    /\ UNCHANGED <<users, territories, leads, accounts, contacts, deals, quotes,
                   activities, seq, req>>

\* POST of an update view: the object comes from the scoped queryset, a valid
\* form is saved and the user redirected, an invalid one shown again
UpdatePost(u, model, pk, raises, form) ==
    /\ view.serial < MaxViews
    /\ LET queryset == object_queryset(model, "update", u, raises)
       IN IF pk \notin PkOf(queryset)
          THEN /\ view' = ObjectResponse(u, model, "update", "POST", raises, pk, queryset, 404)
               /\ UNCHANGED <<leads, accounts, contacts, deals, quotes, activities>>
          ELSE IF ~is_valid(model, form, pk)
          THEN /\ view' = ObjectResponse(u, model, "update", "POST", raises, pk, queryset, 200)
               /\ UNCHANGED <<leads, accounts, contacts, deals, quotes, activities>>
          ELSE LET object == CHOOSE row \in queryset : row.pk = pk
                   saved == model_save(model, construct_instance(model, form, object))
               IN /\ view' = ObjectResponse(u, model, "update", "POST", raises, pk, queryset, 302)
                  /\ Store([Tables EXCEPT ![model] = (@ \ {object}) \cup {saved}])
    /\ UNCHANGED <<users, territories, seq, req>>

\* POST of a delete view: the object comes from the scoped queryset and is
\* deleted with everything that cascades from it
DeletePost(u, model, pk, raises) ==
    /\ view.serial < MaxViews
    /\ LET queryset == object_queryset(model, "delete", u, raises)
       IN IF ~has_permission_mixin(u, model, "delete")
          THEN /\ view' = ObjectResponse(u, model, "delete", "POST", raises, pk, queryset, 403)
               /\ UNCHANGED <<leads, accounts, contacts, deals, quotes, activities>>
          ELSE IF pk \notin PkOf(queryset)
          THEN /\ view' = ObjectResponse(u, model, "delete", "POST", raises, pk, queryset, 404)
               /\ UNCHANGED <<leads, accounts, contacts, deals, quotes, activities>>
          ELSE LET object == CHOOSE row \in queryset : row.pk = pk
               IN /\ view' = ObjectResponse(u, model, "delete", "POST", raises, pk, queryset, 302)
                  /\ Store(Collector(Tables, model, object))
    /\ UNCHANGED <<users, territories, seq, req>>

\* ------------------------------------------------------------- the create views
\* the sequence that numbers the rows of a model
seq_key(model) ==
    CASE model = "Account" -> "account"
      [] model = "Contact" -> "contact"
      [] model = "Lead" -> "lead"
      [] model = "Deal" -> "deal"
      [] model = "Quote" -> "quote"
      [] OTHER -> model

\* Model(): the instance of a CreateView before the form is written into it,
\* with the field defaults of the model
new_instance(model) ==
    CASE model = "Account" ->
           [pk |-> 0, name |-> "", created_by |-> None, assigned_to |-> None,
            territory |-> None]
      [] model = "Contact" ->
           [pk |-> 0, account |-> 0, created_by |-> None, assigned_to |-> None,
            notes |-> ""]
      [] model = "Lead" ->
           [pk |-> 0, status |-> NEW_, company_name |-> "", full_name |-> "",
            assigned_to |-> None, created_by |-> None, territory |-> None]
      [] model = "Deal" -> NoDeal
      [] model = "Quote" ->
           [pk |-> 0, deal |-> 0, account |-> 0, created_by |-> None,
            assigned_to |-> None]
      [] OTHER ->
           [pk |-> 0, created_by |-> None, assigned_to |-> None,
            related_to_account |-> 0, related_to_contact |-> 0,
            related_to_lead |-> 0, related_to_deal |-> 0]

\* form_valid of a create view that leaves created_by empty
create_form_valid_NoCreator(u, model, form) ==
    LET instance == construct_instance(model, form, new_instance(model))
    IN [instance EXCEPT !.assigned_to = IF @ = None THEN u ELSE @]

\* form_valid of a create view: created_by is the user, and so is assigned_to
\* when the form left it empty
create_form_valid(u, model, form) ==
    LET instance == construct_instance(model, form, new_instance(model))
    IN [instance EXCEPT !.created_by = u,
                        !.assigned_to = IF @ = None THEN u ELSE @]

\* POST of the create view of a model other than Deal: an invalid form is
\* shown again, a valid one saved and the user redirected
CreatePost(u, model, form) ==
    /\ view.serial < MaxViews
    /\ model # "Deal"
    /\ IF ~is_valid(model, form, 0)
       THEN /\ view' = ObjectResponse(u, model, "create", "POST", FALSE, 0, {}, 200)
            /\ UNCHANGED <<leads, accounts, contacts, deals, quotes, activities, seq>>
       ELSE LET pk == seq[seq_key(model)] + 1
                saved == model_save(model, [create_form_valid(u, model, form)
                                               EXCEPT !.pk = pk])
            IN /\ view' = ObjectResponse(u, model, "create", "POST", FALSE, pk, {saved}, 302)
               /\ Store([Tables EXCEPT ![model] = @ \cup {saved}])
               /\ seq' = [seq EXCEPT ![seq_key(model)] = pk]
    /\ UNCHANGED <<users, territories, req>>

\* DealCreateView.post up to the INSERT: form_valid, then Deal.save sets the
\* probability and reads the greatest deal_id stored
DealCreateBegin(r, u, form) ==
    /\ req[r].pc = "idle"
    /\ IF r = 1 THEN TRUE ELSE req[r - 1].pc # "idle"
    /\ req' = [req EXCEPT ![r] =
                 IF ~is_valid("Deal", form, 0)
                 THEN [IdleReq EXCEPT !.pc = "done", !.user = u,
                                      !.outcome = "form_invalid"]
                 ELSE [IdleReq EXCEPT !.pc = "deal_insert", !.user = u,
                                      !.deal_num = new_num(deals),
                                      !.instance =
                                         model_save("Deal", create_form_valid(u, "Deal", form))]]
    /\ UNCHANGED <<view, quotes, activities, users, territories, leads, accounts,
                   contacts, deals, seq>>

\* super().save() of Deal.save for the view: the INSERT commits at once;
\* deal_id is unique, a stored deal with the same deal_id makes it raise
\* IntegrityError, which the view does not catch
DealCreateInsert(r) ==
    /\ req[r].pc = "deal_insert"
    /\ LET num == req[r].deal_num
           row == [req[r].instance EXCEPT !.pk = seq.deal + 1, !.deal_id = num]
       IN \* the INSERT waits for an open transaction holding the same id
          /\ \A t \in OthersTx(r) : \A d \in t.deals : d.deal_id # num
          /\ seq' = [seq EXCEPT !.deal = @ + 1]
          /\ IF \E d \in deals : d.deal_id = num
             THEN /\ req' = [req EXCEPT ![r] =
                               [IdleReq EXCEPT !.pc = "done", !.user = req[r].user,
                                               !.outcome = "integrity_error"]]
                  /\ UNCHANGED deals
             ELSE /\ req' = [req EXCEPT ![r] =
                               [IdleReq EXCEPT !.pc = "done", !.user = req[r].user,
                                               !.deal_pk = row.pk,
                                               !.outcome = "deal_saved",
                                               !.redirect = [to |-> "deal-list", pk |-> 0]]]
                  /\ deals' = deals \cup {row}
    /\ UNCHANGED <<view, quotes, activities, users, territories, leads, accounts,
                   contacts>>

\* The stored records of the scoping specification: for every record type one
\* row for each pair <<assigned_to, created_by>> of ScopeOwnerPairs and each
\* territory signal.
ScopeOwnerPairs ==
    {<<None, None>>, <<"max", None>>, <<None, "max">>, <<"sam", None>>, <<None, "sam">>,
     <<"tom", None>>, <<None, "tom">>, <<"sam", "max">>, <<"tom", "sam">>}
ScopeTerritories == {None, "north", "south"}
ScopeStatuses == {QUALIFIED, CONVERTED}
OwnerIx(o) == CASE o = None -> 0 [] o = "max" -> 1 [] o = "sam" -> 2 [] OTHER -> 3
PairIx(o) == OwnerIx(o[2]) + 4 * OwnerIx(o[1])
TerrIx(t) == CASE t = None -> 0 [] t = "north" -> 1 [] OTHER -> 2
StatusIx(st) == IF st = QUALIFIED THEN 0 ELSE 1

\* accounts 1, 2 and 3 have no owner and the territory None, north and south
ScopeAccounts ==
    {[pk |-> 1 + TerrIx(t) + 3 * PairIx(o),
      name |-> "Account " \o ToString(1 + TerrIx(t) + 3 * PairIx(o)),
      created_by |-> o[2], assigned_to |-> o[1], territory |-> t] :
     o \in ScopeOwnerPairs, t \in ScopeTerritories}
\* Contact.account is null=True: 0 stands for no account
ScopeContacts ==
    {[pk |-> 1 + acc + 4 * PairIx(o), account |-> acc,
      created_by |-> o[2], assigned_to |-> o[1], notes |-> ""] :
     o \in ScopeOwnerPairs, acc \in 0..3}
ScopeDeals ==
    {[pk |-> acc + 3 * PairIx(o), deal_id |-> acc + 3 * PairIx(o),
      account |-> acc, primary_contact |-> 0, stage |-> QUALIFICATION,
      probability |-> STAGE_PROBABILITY_MAP(QUALIFICATION), amount |-> 0,
      created_by |-> o[2], assigned_to |-> o[1]] :
     o \in ScopeOwnerPairs, acc \in 1..3}
ScopeQuotes ==
    {[pk |-> 1 + acc + 4 * PairIx(o), deal |-> 1, account |-> acc,
      created_by |-> o[2], assigned_to |-> o[1]] :
     o \in ScopeOwnerPairs, acc \in 0..3}
ScopeActivities ==
    [m \in {"Task", "Call", "Meeting"} |->
        {[pk |-> 1 + PairIx(o), created_by |-> o[2], assigned_to |-> o[1],
          related_to_account |-> 0, related_to_contact |-> 0,
          related_to_lead |-> 0, related_to_deal |-> 0] :
         o \in ScopeOwnerPairs}]
ScopeLeadRows ==
    {[pk |-> 1 + StatusIx(st) + 2 * TerrIx(t) + 6 * PairIx(o),
      status |-> st, company_name |-> "Acme", full_name |-> "Ann Lee",
      assigned_to |-> o[1], created_by |-> o[2], territory |-> t] :
     o \in ScopeOwnerPairs, t \in ScopeTerritories, st \in ScopeStatuses}
\* the lead table by primary key; the keys without a row are deleted leads
ScopeLeads ==
    [pk \in 1..96 |-> IF \E row \in ScopeLeadRows : row.pk = pk
                      THEN CHOOSE row \in ScopeLeadRows : row.pk = pk
                      ELSE NoRow]

\* who asks
ScopeViewers == {"ana", "max", "sam"}
SortParams == {[dashes |-> 0, field |-> "last_name"], [dashes |-> 0, field |-> "status"],
               [dashes |-> 1, field |-> "status"], [dashes |-> 0, field |-> "password"]}
ListParams(model) ==
    IF model = "Lead"
    THEN [status : {None, QUALIFIED, CONVERTED}, sort : SortParams, dir : {None, "desc"}]
    ELSE {NoParams}
RaisesOf(u) == IF users[u].role = MANAGER THEN BOOLEAN ELSE {FALSE}

\* the deployments of the scoping specification: sam holds any role and is in
\* any territory or none, each territory is managed by max, by sam or by nobody
ScopeUsers ==
    {[u \in Users |->
        CASE u = "ana" -> UserRow(ADMIN, None)
          [] u = "max" -> UserRow(MANAGER, None)
          [] u = "sam" -> UserRow(rs, ts)
          [] OTHER -> UserRow(SALES, "south")] :
     rs \in {SALES, MANAGER, OTHER_ROLE}, ts \in {None, "north", "south"}}
ScopeManaged ==
    [Territories -> [manager : {None, "max", "sam"}]]

\* the requests to the scoped views
Views ==
    \/ \E u \in ScopeViewers, model \in Models :
          \E raises \in RaisesOf(u), params \in ListParams(model) :
             View(u, model, "list", raises, params)
    \/ \E u \in ScopeViewers, model \in Models, kind \in ObjectKinds :
          \E raises \in RaisesOf(u) : View(u, model, kind, raises, NoParams)
    \/ \E u \in ScopeViewers, model \in AutocompleteModels :
          \E raises \in RaisesOf(u) : View(u, model, "autocomplete", raises, NoParams)
    \/ \E u \in ScopeViewers : \E raises \in RaisesOf(u) :
          View(u, "Lead", "convert", raises, NoParams)
    \/ \E u \in ScopeViewers, model \in Models : Export(u, model)

InitScope ==
    /\ users \in ScopeUsers
    /\ territories \in ScopeManaged
    /\ leads = ScopeLeads
    /\ accounts = ScopeAccounts
    /\ contacts = ScopeContacts
    /\ deals = ScopeDeals
    /\ quotes = ScopeQuotes
    /\ activities = ScopeActivities
    /\ view = NoView
    /\ seq = [lead |-> 96, account |-> 48, contact |-> 64, deal |-> 48,
             quote |-> 64, Task |-> 16, Call |-> 16, Meeting |-> 16]
    /\ req = [r \in ReqIds |-> IdleReq]

\* The views write nothing and a response is built from the stored rows alone:
\* the scoping specification looks at the first request to each deployment.
NextScope == view.serial = 0 /\ Views

SpecScope == InitScope /\ [][NextScope]_vars

\* The scoping specification of a running deployment: between the listings, the
\* admin site moves territories between managers and changes the territory and
\* the role of sam.
FreshViewers == {"max", "sam"}
FreshManagers == {None, "max", "sam"}
FreshRoles == {SALES, MANAGER, OTHER_ROLE}

InitFresh ==
    /\ users = TeamUsers
    /\ territories = TeamTerritories
    /\ leads = ScopeLeads
    /\ accounts = ScopeAccounts
    /\ contacts = ScopeContacts
    /\ deals = ScopeDeals
    /\ quotes = ScopeQuotes
    /\ activities = ScopeActivities
    /\ view = NoView
    /\ seq = [lead |-> 96, account |-> 48, contact |-> 64, deal |-> 48,
             quote |-> 64, Task |-> 16, Call |-> 16, Meeting |-> 16]
    /\ req = [r \in ReqIds |-> IdleReq]

NextFresh ==
    \/ \E u \in FreshViewers, model \in Models : View(u, model, "list", FALSE, NoParams)
    \/ \E t \in Territories, m \in FreshManagers : SetTerritoryManager(t, m)
    \/ \E t \in Territories \cup {None} : SetUserTerritory("sam", t)
    \/ \E role \in FreshRoles : SetUserRole("sam", role)

SpecFresh == InitFresh /\ [][NextFresh]_vars

\* The detail, update and delete views over a small store in which records
\* hang on records of other users: sam's account 1 carries a contact, a deal,
\* a quote and a task of tom.
ObjectUsers ==
    {[TeamUsers EXCEPT !["ana"].is_superuser = TRUE,
                       !["sam"].user_permissions = perms] :
     perms \in {{}, {"crm_entities.delete_account"}}}
ObjectAccounts ==
    {[pk |-> 1, name |-> "Acme", created_by |-> "sam", assigned_to |-> "sam",
      territory |-> "north"],
     [pk |-> 2, name |-> "Bolt", created_by |-> "tom", assigned_to |-> "tom",
      territory |-> "south"]}
ObjectContacts ==
    {[pk |-> 1, account |-> 1, created_by |-> "tom", assigned_to |-> "tom", notes |-> ""],
     [pk |-> 2, account |-> 2, created_by |-> "sam", assigned_to |-> "sam", notes |-> ""]}
ObjectDeals ==
    {[pk |-> 1, deal_id |-> 1, account |-> 1, primary_contact |-> 0,
      stage |-> "PROSPECTING", probability |-> STAGE_PROBABILITY_MAP("PROSPECTING"),
      amount |-> 0, created_by |-> "tom", assigned_to |-> "tom"],
     [pk |-> 2, deal_id |-> 2, account |-> 2, primary_contact |-> 1,
      stage |-> "NEGOTIATION", probability |-> STAGE_PROBABILITY_MAP("NEGOTIATION"),
      amount |-> 0, created_by |-> "sam", assigned_to |-> "sam"]}
ObjectQuotes ==
    {[pk |-> 1, deal |-> 1, account |-> 1, created_by |-> "tom", assigned_to |-> "tom"],
     [pk |-> 2, deal |-> 2, account |-> 2, created_by |-> "sam", assigned_to |-> "sam"]}
ObjectLeads ==
    [pk \in LeadPks |->
        [pk |-> pk, status |-> QUALIFIED, company_name |-> "Acme", full_name |-> "Ann Lee",
         assigned_to |-> "sam", created_by |-> "sam", territory |-> None]]
ObjectActivities ==
    [m \in {"Task", "Call", "Meeting"} |->
        {[pk |-> 1, created_by |-> "tom", assigned_to |-> "tom",
          related_to_account |-> IF m = "Task" THEN 1 ELSE 0,
          related_to_contact |-> 0,
          related_to_lead |-> IF m = "Meeting" THEN 1 ELSE 0,
          related_to_deal |-> IF m = "Call" THEN 2 ELSE 0],
         [pk |-> 2, created_by |-> "sam", assigned_to |-> "sam",
          related_to_account |-> 0, related_to_contact |-> 0,
          related_to_lead |-> 0, related_to_deal |-> 0]}]

ObjectViewers == {"ana", "max", "sam", "tom"}
ObjectPks == {1, 2}
\* what the update forms submit
ObjectForms(model) ==
    CASE model = "Account" ->
           [name : {"Acme"}, assigned_to : {None, "tom"}, territory : {"north"}]
      [] model = "Contact" ->
           [account : {0, 2}, notes : {""}, assigned_to : {"tom"}]
      [] model = "Lead" ->
           [full_name : {"Ann Lee"}, company_name : {"Acme"}, status : {QUALIFIED},
            assigned_to : {None, "tom"}, territory : {None}]
      [] model = "Deal" ->
           [account : {2}, primary_contact : {0}, stage : {"PROPOSAL", "DRAFT"},
            amount : {0}, assigned_to : {"tom"}]
      [] model = "Quote" -> [deal : {1, 2}, assigned_to : {"tom"}]
      [] OTHER ->
           [related_to_account : {0, 2}, related_to_contact : {0},
            related_to_lead : {0}, related_to_deal : {0}, assigned_to : {"tom"}]

InitObject ==
    /\ users \in ObjectUsers
    /\ territories = TeamTerritories
    /\ leads = ObjectLeads
    /\ accounts = ObjectAccounts
    /\ contacts = ObjectContacts
    /\ deals = ObjectDeals
    /\ quotes = ObjectQuotes
    /\ activities = ObjectActivities
    /\ view = NoView
    /\ seq = [lead |-> MaxLeads, account |-> 2, contact |-> 2, deal |-> 2,
              quote |-> 2, Task |-> 2, Call |-> 2, Meeting |-> 2]
    /\ req = [r \in ReqIds |-> IdleReq]

NextObject ==
    \/ \E u \in ObjectViewers, model \in Models, kind \in ObjectKinds, pk \in ObjectPks :
          ObjectGet(u, model, kind, pk, FALSE)
    \/ \E u \in ObjectViewers, model \in Models, pk \in ObjectPks :
          \E form \in ObjectForms(model) : UpdatePost(u, model, pk, FALSE, form)
    \/ \E u \in ObjectViewers, model \in Models, pk \in ObjectPks :
          DeletePost(u, model, pk, FALSE)

SpecObject == InitObject /\ [][NextObject]_vars

\* The create and update views over the stored records of ObjectAccounts ..
\* ObjectActivities: every create view and every update view, the deal being
\* created in the two steps of Deal.save.
CrudViewers == {"ana", "max", "sam"}
CrudPks == {1, 3}
\* a qualified lead of a company that has no account
CrudLeads == [pk \in LeadPks |-> [ObjectLeads[pk] EXCEPT !.company_name = "Cobalt"]]
\* what the create and update forms submit
CrudForms(model) ==
    CASE model = "Account" ->
           [name : {"Acme", "Cobalt"}, assigned_to : {None, "tom"}, territory : {"north"}]
      [] model = "Deal" ->
           [account : {2}, primary_contact : {0}, stage : {"PROPOSAL", "DRAFT"},
            amount : {0}, assigned_to : {None, "tom"}]
      [] OTHER -> ObjectForms(model)

InitCrud ==
    /\ users = [TeamUsers EXCEPT !["ana"].is_superuser = TRUE]
    /\ territories = TeamTerritories
    /\ leads = CrudLeads
    /\ accounts = ObjectAccounts
    /\ contacts = ObjectContacts
    /\ deals = ObjectDeals
    /\ quotes = ObjectQuotes
    /\ activities = ObjectActivities
    /\ view = NoView
    /\ seq = [lead |-> MaxLeads, account |-> 2, contact |-> 2, deal |-> 2,
              quote |-> 2, Task |-> 2, Call |-> 2, Meeting |-> 2]
    /\ req = [r \in ReqIds |-> IdleReq]

NextCrud ==
    \/ \E u \in CrudViewers, model \in Models : \E form \in CrudForms(model) :
          CreatePost(u, model, form)
    \/ \E u \in FormUsers : \E form \in CrudForms("Deal") :
          DealCreateBegin(1, u, form)
    \/ DealCreateInsert(1)
    \/ \E u \in CrudViewers, model \in Models, pk \in CrudPks :
          \E form \in CrudForms(model) : UpdatePost(u, model, pk, FALSE, form)

SpecCrud == InitCrud /\ [][NextCrud]_vars

\* Deals created by the create view and by conversions, updated and deleted,
\* the requests interleaved, over the same stored records.
NextDeal ==
    \/ Convert(FormUsers)
    \/ \E r \in ReqIds, u \in FormUsers : \E form \in CrudForms("Deal") :
          DealCreateBegin(r, u, form)
    \/ \E r \in ReqIds : DealCreateInsert(r)
    \/ \E u \in FormUsers, pk \in ObjectPks : \E form \in CrudForms("Deal") :
          UpdatePost(u, "Deal", pk, FALSE, form)
    \/ \E u \in FormUsers, pk \in ObjectPks : DeletePost(u, "Deal", pk, FALSE)

SpecDeal == InitCrud /\ [][NextDeal]_vars


\* ------------------------------------------------------------------- claims
\* the step is request r reading its lead and running the checks made before
\* the transaction
BeginStep(r) == req[r].pc = "idle" /\ req'[r].pc # "idle"
\* the step ends request r with a response
EndStep(r) == req[r].pc # "done" /\ req'[r].pc = "done"
Succeeded(l) == {r \in ReqIds : req[r].pk = l /\ req[r].outcome = "success"}
NoOpenTx == \A r \in ReqIds : req[r].tx = EmptyTx
LeadDetail(pk) == [to |-> "lead-detail", pk |-> pk]

\* C1: of the conversion requests that race on one lead at most one succeeds,
\* and no more than one account, one contact and one deal per converted lead
\* is ever stored.
C1_AtMostOneWinner ==
    /\ \A l \in LeadPks : Cardinality(Succeeded(l)) <= 1
    /\ LET won == {l \in LeadPks : Succeeded(l) # {}}
       IN /\ Cardinality(accounts) = Cardinality(won)
          /\ Cardinality(contacts) = Cardinality(won)
          /\ Cardinality(deals) = Cardinality(won)

\* a request has committed its conversion while another one on the same lead,
\* which read the lead as QUALIFIED before that commit, is still in its
\* transaction, or has been turned down by the unique account name
C1_Witness ==
    \E r1, r2 \in ReqIds :
        /\ r1 # r2
        /\ req[r1].pk = req[r2].pk
        /\ req[r1].outcome = "success"
        /\ req[r2].outcome = "integrity_error"
        /\ Cardinality(accounts) = 1

\* C2: when two conversion requests race on one lead, the request that does
\* not win ends with the outcome 'already converted' and with no other outcome
\* (an unrelated database failure set aside).
C2_LoserAlreadyConverted ==
    \A r1, r2 \in ReqIds :
        (/\ r1 # r2
         /\ req[r1].pk = req[r2].pk
         /\ req[r1].outcome = "success"
         /\ req[r2].pc = "done"
         /\ req[r2].outcome # "error")
        => req[r2].outcome = "already_converted"

\* C3: every step of a conversion request is all-or-nothing on the committed
\* tables: either it stores the request's account, contact and deal together
\* and marks the lead CONVERTED, or it stores no row and leaves every lead as
\* it was, whichever statement of the transaction failed.
C3_AllOrNothing ==
    [][\A r \in ReqIds :
         req'[r] # req[r] =>
            \/ /\ req'[r].outcome = "success"
               /\ \E a \in accounts' \ accounts, c \in contacts' \ contacts,
                     d \in deals' \ deals :
                     /\ accounts' = accounts \cup {a}
                     /\ contacts' = contacts \cup {c}
                     /\ deals' = deals \cup {d}
                     /\ a.pk = req[r].account_pk
                     /\ c.account = a.pk
                     /\ d.account = a.pk
               /\ leads'[req[r].pk].status = CONVERTED
               /\ \A l \in LeadPks \ {req[r].pk} : leads'[l] = leads[l]
            \/ /\ req'[r].outcome # "success"
               /\ db' = db]_vars

\* a request failed inside its transaction after it had inserted its account
\* and its contact, and no row of it is stored
C3_Witness ==
    /\ NoOpenTx
    /\ \E r \in ReqIds : req[r].outcome \in {"error", "integrity_error"}
    /\ seq.contact > 0
    /\ accounts = {} /\ contacts = {} /\ deals = {}
    /\ \E l \in LeadPks : leads[l].status = QUALIFIED

\* C4: each lead is the source of at most one successful conversion, whatever
\* lead creations, lead updates and conversions are run.
C4_OneConversionPerLead ==
    \A r1, r2 \in ReqIds :
        (/\ req[r1].outcome = "success"
         /\ req[r2].outcome = "success"
         /\ req[r1].pk = req[r2].pk)
        => r1 = r2

\* the transitions of the lead status state machine of the specification
StatusMove(from, to) ==
    \/ from = NEW_ /\ to = CONTACTED
    \/ from = CONTACTED /\ to = QUALIFIED
    \/ from = QUALIFIED /\ to \in {CONVERTED, LOST}

\* C5: the status of a stored lead moves only NEW -> CONTACTED -> QUALIFIED ->
\* {CONVERTED, LOST}; CONVERTED is set only by a conversion; CONVERTED and LOST
\* are never left.
C5_StatusMachine ==
    [][\A l \in LeadPks :
         (leads[l] # NoRow /\ leads'[l].status # leads[l].status) =>
            /\ StatusMove(leads[l].status, leads'[l].status)
            /\ leads'[l].status = CONVERTED =>
                  \E r \in ReqIds : req[r].pk = l /\ EndStep(r)
                                    /\ req'[r].outcome = "success"]_vars

\* C6: a conversion that succeeds stores exactly one account, one contact and
\* one deal and sets the lead CONVERTED; a later request by a permitted user
\* on that lead, still CONVERTED, changes nothing in the database, reports
\* 'already converted' and redirects to the lead's detail view.
C6_SecondConversionRejected ==
    [][\A r \in ReqIds :
         /\ (EndStep(r) /\ req'[r].outcome = "success") =>
               /\ Cardinality(accounts') = Cardinality(accounts) + 1
               /\ Cardinality(contacts') = Cardinality(contacts) + 1
               /\ Cardinality(deals') = Cardinality(deals) + 1
               /\ leads'[req[r].pk].status = CONVERTED
         /\ (/\ BeginStep(r)
             /\ Succeeded(req'[r].pk) # {}
             /\ leads[req'[r].pk].status = CONVERTED
             /\ req'[r].outcome # "forbidden") =>
               /\ req'[r].pc = "done"
               /\ req'[r].outcome = "already_converted"
               /\ req'[r].redirect = LeadDetail(req'[r].pk)
               /\ db' = db]_vars

\* the same user converted a lead and then asked again
C6_Witness ==
    \E r1, r2 \in ReqIds :
        /\ r1 # r2
        /\ req[r1].pk = req[r2].pk
        /\ req[r1].user = req[r2].user
        /\ req[r1].outcome = "success"
        /\ req[r2].outcome = "already_converted"
        /\ leads[req[r1].pk].status = CONVERTED
        /\ Cardinality(accounts) = 1 /\ Cardinality(contacts) = 1
        /\ Cardinality(deals) = 1

\* C7: a request by a permitted user that reads the lead as NEW, CONTACTED or
\* LOST ends at once with a failure and changes nothing in the database; only
\* a request that reads the lead as QUALIFIED enters the transaction and can
\* succeed.
C7_StatusGate ==
    [][\A r \in ReqIds :
         /\ (BeginStep(r) /\ req'[r].pc # "done") =>
               leads[req'[r].pk].status = QUALIFIED
         /\ (EndStep(r) /\ req'[r].outcome = "success") =>
               req[r].lead.status = QUALIFIED
         /\ (/\ BeginStep(r)
             /\ leads[req'[r].pk].status \in {NEW_, CONTACTED, LOST}
             /\ req'[r].outcome # "forbidden") =>
               /\ req'[r].pc = "done"
               /\ req'[r].outcome \in {"lost", "not_qualified"}
               /\ db' = db]_vars

\* a permitted user asked to convert a lead that is not QUALIFIED and nothing
\* was stored
C7_Witness ==
    \E r \in ReqIds :
        /\ req[r].outcome \in {"lost", "not_qualified"}
        /\ leads[req[r].pk].status \in {NEW_, CONTACTED, LOST}
        /\ NoOpenTx
        /\ accounts = {} /\ contacts = {} /\ deals = {}

\* C8: when an account with the derived name is stored, the conversion of a
\* QUALIFIED lead stops at the name check, stores nothing and leaves the lead
\* QUALIFIED.
C8_NameCollision ==
    [][\A r \in ReqIds :
         (/\ req[r].pc = "atomic"
          /\ req'[r] # req[r]
          /\ \E a \in accounts : a.name = account_name(req[r].lead)) =>
            /\ req'[r].pc = "done"
            /\ req'[r].outcome \in {"collision", "error"}
            /\ req'[r].redirect = LeadDetail(req[r].pk)
            /\ db' = db]_vars

\* the conversion of a QUALIFIED lead was turned down because of the name,
\* and the lead is still QUALIFIED
C8_Witness ==
    \E r \in ReqIds :
        /\ req[r].outcome = "collision"
        /\ leads[req[r].pk].status = QUALIFIED
        /\ \E a \in accounts : a.name = account_name(leads[req[r].pk])
        /\ contacts = {} /\ deals = {}

\* C9: a user passes the permission check of the conversion for a lead exactly
\* when the lead is in the set the scoping filter returns for that user over
\* all leads; a user who does not pass is told 'permission denied', is sent to
\* the lead's detail view, and nothing is stored or changed.
C9_PermissionIsScope ==
    [][\A r \in ReqIds :
         (BeginStep(r) /\ leads[req'[r].pk] # NoRow) =>
            LET u == req'[r].user
                pk == req'[r].pk
            IN /\ (req'[r].outcome # "forbidden") <=>
                     (leads[pk] \in LeadScope(u, req'[r].raises))
               /\ req'[r].outcome = "forbidden" =>
                     /\ req'[r].pc = "done"
                     /\ req'[r].redirect = LeadDetail(pk)
                     /\ db' = db]_vars

\* a manager who neither owns nor created the lead converted it, and a user
\* outside the lead's scope was turned away
C9_Witness ==
    \E r1, r2 \in ReqIds :
        /\ req[r1].outcome = "success"
        /\ is_manager_role(req[r1].user)
        /\ ~OwnQ(req[r1].user, leads[req[r1].pk])
        /\ req[r2].outcome = "forbidden"
        /\ req[r2].pk = req[r1].pk
        /\ leads[req[r2].pk] \notin LeadScope(req[r2].user, req[r2].raises)
        /\ req[r2].redirect = LeadDetail(req[r2].pk)

\* the first precondition, in the documented order, that fails for user u on
\* lead pk in the committed state ("none" when all of them pass)
FirstFailure(u, pk, raises) ==
    CASE leads[pk] = NoRow -> "not_found"
      [] leads[pk] # NoRow /\ leads[pk] \notin LeadScope(u, raises) -> "forbidden"
      [] OTHER ->
           CASE leads[pk].status = CONVERTED -> "already_converted"
             [] leads[pk].status = LOST -> "lost"
             [] leads[pk].status \in {NEW_, CONTACTED} -> "not_qualified"
             [] OTHER -> "none"

\* C10: the preconditions are evaluated in the order not-found, permission,
\* already-converted, lost, not-qualified, account-name collision, and the
\* request reports the first one that fails.
C10_FirstFailureWins ==
    [][\A r \in ReqIds :
         /\ BeginStep(r) =>
               LET first == FirstFailure(req'[r].user, req'[r].pk, req'[r].raises)
               IN IF first = "none"
                  THEN req'[r].pc = "atomic"
                  ELSE req'[r].pc = "done" /\ req'[r].outcome = first
         /\ (EndStep(r) /\ req'[r].outcome = "collision") => req[r].pc = "atomic"]_vars

\* a user without permission asked for a CONVERTED lead and was told
\* 'permission denied'; a permitted user asked for a LOST lead whose account
\* name is taken and was told the lead is lost
C10_Witness ==
    \E r1, r2 \in ReqIds :
        /\ req[r1].outcome = "forbidden"
        /\ req[r2].outcome = "lost"
        /\ leads[req[r2].pk].status = LOST
        /\ \E a \in accounts : a.name = account_name(leads[req[r2].pk])

\* C11: a conversion that succeeds stores exactly one account, one contact of
\* that account and one deal of that account whose primary contact is that
\* contact, sets the lead CONVERTED, and answers with a redirect to the detail
\* page of the account it stored.
C11_SuccessResult ==
    [][\A r \in ReqIds :
         (EndStep(r) /\ req'[r].outcome = "success") =>
            /\ \E a \in accounts' \ accounts, c \in contacts' \ contacts,
                  d \in deals' \ deals :
                  /\ accounts' \ accounts = {a}
                  /\ contacts' \ contacts = {c}
                  /\ deals' \ deals = {d}
                  /\ accounts \subseteq accounts'
                  /\ contacts \subseteq contacts'
                  /\ deals \subseteq deals'
                  /\ a.name = account_name(req[r].lead)
                  /\ c.account = a.pk
                  /\ d.account = a.pk
                  /\ d.primary_contact = c.pk
                  /\ req'[r].redirect = [to |-> "account-detail", pk |-> a.pk]
            /\ leads'[req[r].pk].status = CONVERTED]_vars

\* a conversion succeeded: its account, contact and deal are stored and linked
\* and the response points at the account
C11_Witness ==
    \E r \in ReqIds :
        /\ req[r].outcome = "success"
        /\ \E a \in accounts, c \in contacts, d \in deals :
              /\ c.account = a.pk
              /\ d.account = a.pk
              /\ d.primary_contact = c.pk
              /\ req[r].redirect = [to |-> "account-detail", pk |-> a.pk]
        /\ leads[req[r].pk].status = CONVERTED

\* the outcome classes of the specification
OutcomeClass(outcome) ==
    CASE outcome = "success" -> "success"
      [] outcome = "not_found" -> "not_found"
      [] outcome = "forbidden" -> "forbidden"
      [] outcome = "already_converted" -> "already_converted"
      [] outcome \in {"lost", "not_qualified"} -> "invalid_status"
      [] outcome \in {"collision", "integrity_error", "error"} -> "error"
      [] OTHER -> "escaped"
\* the outcome class a message tells the user about
MessageClass(msg) ==
    CASE msg \in {"account_created", "contact_created", "deal_created", "converted"} -> "success"
      [] msg = "error_converting" -> "error"
      [] msg \in {"lost", "not_qualified"} -> "invalid_status"
      [] OTHER -> msg

\* C12: every conversion request ends with a redirect and with messages of
\* exactly one outcome class (success, not-found, forbidden, already-converted,
\* invalid-status, error), no exception escapes, and a failure inside the
\* transaction leaves no created row.
C12_OneOutcomeClass ==
    [][\A r \in ReqIds :
         EndStep(r) =>
            LET cls == OutcomeClass(req'[r].outcome)
                msgs == req'[r].msgs
            IN /\ cls # "escaped"
               /\ req'[r].redirect.to \in {"lead-list", "lead-detail", "account-detail"}
               /\ msgs # <<>>
               /\ \A i \in DOMAIN msgs : MessageClass(msgs[i]) = cls
               /\ (InTx(r) /\ cls # "success") => db' = db]_vars

\* a request to a scoped view is answered in this step
ViewStep == view' # view
\* the views that scope with _filter_queryset_by_role
ScopingKinds == {"list", "detail", "update", "delete"}
\* the policy of the specification, in its words
PolicyOwn(u, row) == row.assigned_to = u \/ row.created_by = u
PolicyManaged(m) == {t \in Territories : territories[t].manager = m}
PolicyTeam(m) ==
    {x \in Users : /\ x # m
                   /\ users[x].role = SALES
                   /\ users[x].territory \in PolicyManaged(m)}
PolicyTerritory(model, row) ==
    CASE model \in {"Account", "Lead"} -> row.territory
      [] model \in {"Contact", "Deal", "Quote"} ->
           IF \E a \in accounts : a.pk = row.account
           THEN (CHOOSE a \in accounts : a.pk = row.account).territory
           ELSE None
      [] OTHER -> None
PolicyManager(m, model, row) ==
    \/ PolicyOwn(m, row)
    \/ row.assigned_to \in PolicyTeam(m)
    \/ row.created_by \in PolicyTeam(m)
    \/ PolicyTerritory(model, row) \in PolicyManaged(m)

\* C13: for a user with role ADMIN and every record type, the scoping filter
\* of every list, detail, update and delete view returns the base set it was
\* given, unchanged.
C13_AdminSeesAll ==
    [][(/\ ViewStep
        /\ view'.kind \in ScopingKinds
        /\ users[view'.user].role = ADMIN) =>
           view'.scoped = base_queryset(view'.model, view'.kind)]_vars

\* the admin listed the meetings and got every one of them, those of other
\* users and those without an owner included
C13_Witness ==
    /\ view.user = "ana"
    /\ users["ana"].role = ADMIN
    /\ view.model = "Meeting"
    /\ view.kind = "list"
    /\ view.scoped = activities["Meeting"]
    /\ \E row \in view.scoped : row.assigned_to = None /\ row.created_by = None
    /\ \E row \in view.scoped : row.assigned_to = "sam"

\* C14: for a user u with role SALES and every record type, the scoped set is
\* exactly the rows of the base set with assigned_to = u or created_by = u,
\* whatever the territories of u and of the rows.
C14_SalesSeesOwn ==
    [][(/\ ViewStep
        /\ view'.kind \in ScopingKinds
        /\ users[view'.user].role = SALES) =>
           view'.scoped =
              {row \in base_queryset(view'.model, view'.kind) :
                 row.assigned_to = view'.user \/ row.created_by = view'.user}]_vars

\* a sales associate of a managed territory listed the accounts: the account
\* they only created is shown, an unowned account of their own territory is not
C14_Witness ==
    /\ view.user = "sam"
    /\ users["sam"].role = SALES
    /\ users["sam"].territory = "north"
    /\ view.model = "Account"
    /\ view.kind = "list"
    /\ \E row \in view.scoped : row.created_by = "sam" /\ row.assigned_to = None
    /\ \E row \in accounts \ view.scoped :
          row.territory = "north" /\ row.assigned_to = None /\ row.created_by = None

\* C15: for a manager m of the territories T the scoped set is exactly the
\* rows assigned to or created by m, or assigned to or created by a SALES user
\* other than m whose territory is in T, or (Account and Lead directly;
\* Contact, Deal and Quote through their account) whose territory is in T.
C15_ManagerScope ==
    [][(/\ ViewStep
        /\ view'.kind \in ScopingKinds
        /\ users[view'.user].role = MANAGER
        /\ ~view'.raises) =>
           view'.scoped =
              {row \in base_queryset(view'.model, view'.kind) :
                 PolicyManager(view'.user, view'.model, row)}]_vars

\* the manager of north listed the deals: a deal of a team member that the
\* manager neither owns nor created is shown, so is an unowned deal of an
\* account in north; the deal of a user of the territory who is not SALES and
\* the deal of a sales associate of south are not
C15_Witness ==
    /\ view.user = "max"
    /\ ~view.raises
    /\ view.model = "Deal"
    /\ view.kind = "list"
    /\ PolicyManaged("max") = {"north"}
    /\ users["sam"].territory = "north"
    /\ \E row \in view.scoped :
          /\ row.assigned_to = None /\ row.created_by = None
          /\ PolicyTerritory("Deal", row) = "north"
    /\ \E row \in deals \ view.scoped : row.assigned_to = "tom"
    /\ \/ /\ users["sam"].role = SALES
          /\ \E row \in view.scoped :
                row.assigned_to = "sam" /\ PolicyTerritory("Deal", row) = "south"
       \/ /\ users["sam"].role # SALES
          /\ \E row \in deals \ view.scoped : row.assigned_to = "sam"

\* C16: a manager who manages no territory sees exactly the rows assigned to
\* or created by themself: no row of a team member, and no row selected by
\* territory, the rows without a territory included.
C16_ManagerNoTerritory ==
    [][(/\ ViewStep
        /\ view'.kind \in ScopingKinds
        /\ users[view'.user].role = MANAGER
        /\ ~view'.raises
        /\ PolicyManaged(view'.user) = {}) =>
           /\ view'.scoped =
                 {row \in base_queryset(view'.model, view'.kind) :
                    PolicyOwn(view'.user, row)}
           /\ \A row \in view'.scoped : PolicyOwn(view'.user, row)]_vars

\* a manager without a territory listed the leads while a sales associate
\* without a territory owns leads and leads without a territory are stored:
\* only the manager's own leads are shown
C16_Witness ==
    /\ view.user = "max"
    /\ ~view.raises
    /\ PolicyManaged("max") = {}
    /\ users["sam"].role = SALES
    /\ users["sam"].territory = None
    /\ view.model = "Lead"
    /\ view.kind = "detail"
    /\ view.scoped # {}
    /\ \A row \in view.scoped : PolicyOwn("max", row)
    /\ \E row \in LeadQueryset \ view.scoped : row.territory = None
    /\ \E row \in LeadQueryset \ view.scoped : row.assigned_to = "sam"

\* C17: when the territory or team lookup raises while scoping for a manager
\* m, the filter answers with exactly the rows assigned to or created by m:
\* not the full set, and nothing m would not see without the error.
C17_ManagerFallback ==
    [][(/\ ViewStep
        /\ view'.kind \in ScopingKinds
        /\ users[view'.user].role = MANAGER
        /\ view'.raises) =>
           LET base == base_queryset(view'.model, view'.kind)
           IN /\ view'.scoped = {row \in base : PolicyOwn(view'.user, row)}
              /\ view'.scoped # base
              /\ view'.scoped \subseteq
                    {row \in base : PolicyManager(view'.user, view'.model, row)}]_vars

\* the lookup raised for the manager of north, who has a team member owning
\* quotes: the manager's own quotes are shown and the team member's are not
C17_Witness ==
    /\ view.user = "max"
    /\ view.raises
    /\ view.model = "Quote"
    /\ view.kind = "list"
    /\ PolicyTeam("max") = {"sam"}
    /\ view.scoped = {row \in quotes : PolicyOwn("max", row)}
    /\ view.scoped # {}
    /\ \E row \in quotes \ view.scoped : row.assigned_to = "sam"

\* C18: for a user whose role is none of ADMIN, MANAGER and SALES every list,
\* detail, update, delete and autocomplete view answers with the empty set and
\* the permission check of the conversion lets no lead through, whatever the
\* user owns or created.
C18_UnknownRoleSeesNothing ==
    [][(ViewStep /\ users[view'.user].role \notin Roles) =>
          view'.scoped = {} /\ view'.result = {}]_vars

\* C19: the lead list view never shows a lead whose status is CONVERTED, for
\* every role and every status filter, sort field and direction asked for.
C19_ListHidesConverted ==
    (view.model = "Lead" /\ view.kind = "list") =>
        \A row \in view.result : row.status # CONVERTED

\* the admin asked the lead list for the CONVERTED leads, sorted by status
\* descending, while CONVERTED leads are stored, and got none
C19_Witness ==
    /\ view.user = "ana"
    /\ view.model = "Lead"
    /\ view.kind = "list"
    /\ view.params.status = CONVERTED
    /\ view.params.sort.field = "status"
    /\ view.order_by = [field |-> "status", desc |-> TRUE]
    /\ view.result = {}
    /\ \E row \in LeadQueryset : row.status = CONVERTED

\* the rows of the list view's base set the policy lets user u see, computed on
\* the users and territories as they are stored now
PolicyScope(u, model) ==
    {row \in base_queryset(model, "list") :
        CASE users[u].role = ADMIN -> TRUE
          [] users[u].role = MANAGER -> PolicyManager(u, model, row)
          [] users[u].role = SALES -> PolicyOwn(u, row)
          [] OTHER -> FALSE}

\* C20: scoping is evaluated on the current state at each request: after any
\* change of a territory's manager, of a user's territory or of a user's role,
\* the next listing by any user is the policy's scope over the users and
\* territories as stored at that request, whatever an earlier request returned.
C20_ScopeIsFresh ==
    [][(ViewStep /\ view'.kind = "list") =>
          /\ view'.scoped = PolicyScope(view'.user, view'.model)
          /\ view'.result = view'.scoped]_vars

\* max listed twice; between the listings the north territory was taken from
\* max (the users are as at the start, sam a sales associate in north), and the
\* second call list holds no call sam owns while it still holds those of max
C20_Witness ==
    /\ view.serial = 2
    /\ view.user = "max"
    /\ view.model = "Call"
    /\ users = TeamUsers
    /\ TeamTerritories["north"].manager = "max"
    /\ territories["north"].manager # "max"
    /\ \E row \in activities["Call"] : row.assigned_to = "sam"
    /\ \A row \in view.result : PolicyOwn("max", row)
    /\ \E row \in view.result : PolicyOwn("max", row)

\* the scoped set of the list view of a model for user u
ListScope(u, model, raises) ==
    scope_filter(model, u, base_queryset(model, "list"), raises)

\* C23: every record an autocomplete endpoint (account, contact, lead, deal)
\* returns to a user is in the set the list view's scoping returns for that
\* user and record type.
C23_AutocompleteWithinListScope ==
    [][(ViewStep /\ view'.kind = "autocomplete") =>
          view'.scoped \subseteq ListScope(view'.user, view'.model, view'.raises)]_vars

\* the set the scoping policy returns for user u and a record type, over every
\* stored record of the type
PolicyRecords(u, model) ==
    {row \in objects_all(model) :
        CASE users[u].role = ADMIN -> TRUE
          [] users[u].role = MANAGER -> PolicyManager(u, model, row)
          [] users[u].role = SALES -> PolicyOwn(u, row)
          [] OTHER -> FALSE}

\* C24 as stated: for every role, the records a user obtains from an export
\* without filter parameters are the set the scoping policy returns for that
\* user and record type.
C24_ExportIsScoped ==
    [][(ViewStep /\ view'.kind = "export") =>
          view'.result = PolicyRecords(view'.user, view'.model)]_vars

\* C24: the export views are admin-only. A user with role ADMIN obtains from
\* an export without filter parameters the set the scoping policy returns for
\* an admin, every stored record of the type; every other user is answered 403
\* and obtains no record.
C24_ExportIsAdminOnly ==
    [][(ViewStep /\ view'.kind = "export") =>
          IF users[view'.user].role = ADMIN
          THEN /\ view'.status_code = 200
               /\ view'.result = PolicyRecords(view'.user, view'.model)
               /\ view'.result = objects_all(view'.model)
          ELSE /\ view'.status_code = 403
               /\ view'.result = {}]_vars

\* the manager asked for the account export, was answered 403 and got nothing,
\* while the policy lets them see accounts
C24_Witness ==
    /\ view.kind = "export"
    /\ view.model = "Account"
    /\ view.user = "max"
    /\ users["max"].role = MANAGER
    /\ view.status_code = 403
    /\ view.result = {}
    /\ PolicyRecords("max", "Account") # {}

\* the page a redirect points to is one the user may view: the detail views
\* take the object from the scoped queryset and answer 404 otherwise; the lead
\* list is open to every authenticated user
Viewable(u, redirect) ==
    CASE redirect.to = "account-detail" ->
           \E a \in scope_filter("Account", u, accounts, FALSE) : a.pk = redirect.pk
      [] redirect.to = "lead-detail" ->
           \E l \in LeadScope(u, FALSE) : l.pk = redirect.pk
      [] OTHER -> redirect.to = "lead-list"

\* the redirect request r answered with is viewable by its user
RedirectViewable(r) == Viewable(req[r].user, req[r].redirect)

\* C27: every redirect returned by LeadConvertView.post points to a page the
\* acting user is allowed to view: the account detail after a success is in the
\* user's account scope, the lead detail after 'permission denied', an invalid
\* status or an error is in the user's lead scope.
C27_RedirectIsViewable ==
    [][\A r \in ReqIds :
          EndStep(r) => RedirectViewable(r)']_vars

\* the step answers a detail, update or delete request of user u for the
\* stored record pk of the model
ObjectStep(u, model, pk) ==
    /\ ViewStep
    /\ view'.kind \in ObjectKinds
    /\ view'.user = u /\ view'.model = model /\ view'.pk = pk
    /\ pk \in PkOf(objects_all(model))

\* the stored record pk of the model is the same before and after the step
RecordKept(model, pk) ==
    \A row \in objects_all(model) : row.pk = pk => row \in objects_all(model)'

\* C21: for every record type, a detail, update or delete request by an
\* authenticated user on a record outside that user's scoped set is answered
\* with 404 and leaves the record unchanged and undeleted.
C21_OutOfScopeIs404 ==
    [][\A u \in Users, model \in Models, pk \in ObjectPks :
          (ObjectStep(u, model, pk) /\ pk \notin PkOf(PolicyRecords(u, model))) =>
              /\ view'.status_code = 404
              /\ RecordKept(model, pk)]_vars

\* C22: a SALES user who is the assignee of an account and holds no extra
\* model permission can open the account's delete confirmation page (200) and
\* delete the account by POST: afterwards the account no longer exists and the
\* user is redirected (302) to the account list.
C22_AssigneeDeletesAccount ==
    [][\A u \in Users, pk \in ObjectPks :
          (/\ ObjectStep(u, "Account", pk)
           /\ view'.kind = "delete"
           /\ users[u].role = SALES
           /\ ~users[u].is_superuser
           /\ users[u].user_permissions = {}
           /\ \E a \in accounts : a.pk = pk /\ a.assigned_to = u) =>
              IF view'.method = "GET"
              THEN view'.status_code = 200
              ELSE /\ view'.status_code = 302
                   /\ pk \notin PkOf(accounts')]_vars

\* the keys of the records of a model the step removes
Deleted(model) == PkOf(objects_all(model)) \ PkOf(objects_all(model)')

\* C28: a delete performed through a delete view removes only records in the
\* acting user's scoped set: no record outside the user's scope, such as a
\* contact, deal or quote of the deleted account that other users own and
\* created, is deleted as a consequence.
C28_DeleteStaysInScope ==
    [][\A u \in Users :
          (ViewStep /\ view'.kind = "delete" /\ view'.user = u) =>
              \A model \in Models :
                 Deleted(model) \subseteq PkOf(PolicyRecords(u, model))]_vars

\* C30: after every Deal.save (create view, update view, conversion) the
\* probability of the deal is the value mapped to its stage, whatever it was
\* before the save: in every stored deal, and in every deal written inside an
\* open conversion, probability = STAGE_PROBABILITY_MAP[stage].
C30_ProbabilityFollowsStage ==
    /\ \A d \in deals : d.probability = STAGE_PROBABILITY_MAP(d.stage)
    /\ \A r \in ReqIds : \A d \in req[r].tx.deals :
          d.probability = STAGE_PROBABILITY_MAP(d.stage)

\* the update view saved a deal whose stage went from NEGOTIATION (80) to
\* PROPOSAL, and a deal created by the create view is stored
C30_Witness ==
    /\ \E d \in deals : /\ d.pk = 2
                        /\ d.stage = "PROPOSAL"
                        /\ d.probability = 60
    /\ \E d \in deals : d.pk > 2 /\ d.stage = "PROPOSAL" /\ d.probability = 60
    /\ view.kind = "update" /\ view.model = "Deal" /\ view.status_code = 302

\* the INSERT of the deal of request r ran in this step
DealInsertStep(r) ==
    /\ req[r].pc \in {"deal_insert", "insert_deal"}
    /\ req'[r].pc # req[r].pc

\* C29: after any interleaving of concurrent deal creations (create view and
\* conversion) and deal deletions, no two stored deals share a deal_id, and no
\* creation fails or is rolled back because the deal_id it computed was also
\* computed by a concurrent creation.
C29_DealIdNeverCollides ==
    [][/\ \A d1, d2 \in deals' : d1.deal_id = d2.deal_id => d1.pk = d2.pk
       /\ \A r \in ReqIds :
             DealInsertStep(r) => req'[r].outcome # "integrity_error"]_vars

\* C26: after any sequence of quote create, quote update and deal update
\* operations, the account of every stored quote is the current account of
\* its deal.
C26_QuoteAccountIsDealAccount ==
    \A q \in quotes : \E d \in deals : d.pk = q.deal /\ q.account = d.account

\* the stored row pk of the model is the one the create view makes of the form
\* for user u
CreatedAs(model, pk, u, form) ==
    \E row \in objects_all(model) :
       /\ row.pk = pk
       /\ row.created_by = u
       /\ row.assigned_to = IF form.assigned_to = None THEN u ELSE form.assigned_to

\* the rows that came from a create view: the keys above those of the stored
\* records the behaviour starts with
CreatedRows(model) ==
    {row \in objects_all(model) : row.pk > (IF model = "Lead" THEN MaxLeads ELSE 2)}

\* every created row is in the scoped set of its creator
CreatedInScope ==
    \A model \in Models : \A row \in CreatedRows(model) :
       /\ row.created_by \in Users
       /\ users[row.created_by].role \in Roles =>
             row \in object_queryset(model, "detail", row.created_by, FALSE)

\* the rows the step keeps have the created_by they had
CreatorKept(model) ==
    \A row \in objects_all(model) : \A kept \in objects_all(model)' :
       kept.pk = row.pk => kept.created_by = row.created_by

\* C25: a record created through a create view gets created_by = the acting
\* user and assigned_to = the submitted assignee, or the acting user when none
\* is submitted; it is in the creator's scoped set right after creation and
\* stays in it across later updates while the creator's role is ADMIN, MANAGER
\* or SALES, and no update changes created_by.
C25_CreatorKeepsRecord ==
    [][/\ \A u \in Users, model \in Models \ {"Deal"} :
             \A form \in CrudForms(model), pk \in 1..(seq[seq_key(model)] + 1) :
                (/\ pk = seq[seq_key(model)] + 1
                 /\ view'.kind = "create" /\ view'.status_code = 302
                 /\ view'.user = u /\ view'.model = model
                 /\ CreatePost(u, model, form)) =>
                   CreatedAs(model, pk, u, form)'
       /\ \A r \in ReqIds, u \in Users : \A form \in CrudForms("Deal") :
             (/\ req[r].pc = "idle" /\ req'[r].pc = "deal_insert"
              /\ req'[r].user = u
              /\ DealCreateBegin(r, u, form)) =>
                /\ req'[r].instance.created_by = u
                /\ req'[r].instance.assigned_to =
                      IF form.assigned_to = None THEN u ELSE form.assigned_to
       /\ \A r \in ReqIds :
             (/\ req[r].pc = "deal_insert" /\ req'[r].outcome = "deal_saved"
              /\ DealCreateInsert(r)) =>
                \E d \in deals' : /\ d.pk = req'[r].deal_pk
                                  /\ d.created_by = req[r].instance.created_by
                                  /\ d.assigned_to = req[r].instance.assigned_to
       /\ CreatedInScope'
       /\ \A model \in Models : CreatorKept(model)]_vars

\* an account that sam created without an assignee is stored with sam as its
\* creator after the admin's update made tom its assignee, and a deal that sam
\* created is stored
C25_Witness ==
    /\ view.kind = "update" /\ view.user = "ana" /\ view.status_code = 302
    /\ view.model = "Account"
    /\ \E a \in accounts : /\ a.pk = 3
                           /\ a.created_by = "sam"
                           /\ a.assigned_to = "tom"
                           /\ a \in object_queryset("Account", "detail", "sam", FALSE)
    /\ \E d \in deals : d.pk = 3 /\ d.created_by = "sam" /\ d.assigned_to = "sam"

====
